---- MODULE Spec2Model ----
(***************************************************************************)
(* Version management of the LSM engine (version_set.cc): the VersionSet,  *)
(* its ring of reference-counted Versions, the Builder that folds           *)
(* VersionEdits onto a base Version, LogAndApply with its MANIFEST write,   *)
(* ForeighApply, Recover, the readers that pin Versions and the Compaction  *)
(* objects that pin their input Version.  Non-sublevel mode.                *)
(***************************************************************************)
EXTENDS Integers, Sequences, FiniteSets, TLC

VARIABLES
  heap,        \* FileMetaData objects: ObjIds -> record, or NoFile (not allocated / freed)
  versions,    \* Version objects: VerIds -> record, or NoVersion
  ring,        \* the versions linked after dummy_versions_, oldest first
  vs,          \* the VersionSet's scalar fields and compact_pointer_
  disk,        \* descriptor files by number: a sequence of records, or NoDisk
  durable,     \* per descriptor file: how many of its records a Sync covered
  current_file,\* the number the CURRENT file names, 0 when there is no CURRENT
  mu,          \* the holder of the mutex M, or NoThread
  pc,          \* per thread: where it is in its LogAndApply call
  loc,         \* per thread: the locals of its LogAndApply call
  held,        \* per reader: the Version it pinned, or 0
  comp,        \* per compaction slot: the Compaction object, or NoCompaction
  phase,       \* "constructed" before Recover, "open" after it, "failed"
  fault,       \* the first assertion that failed, "none" otherwise
  callers,     \* "serial": the callers never overlap two applies; "free": M only
  hist         \* history: the edits installed, what each call and reader saw

vars == <<heap, versions, ring, vs, disk, durable, current_file, mu, pc, loc,
          held, comp, phase, fault, callers, hist>>

---------------------------------------------------------------------------
(* Bounds of the model *)

\* the number of edits the callers submit (LogAndApply and ForeighApply)
MaxCalls == 2
\* the number of edits submitted in the runs that follow the reads
MaxSeekCalls == 1
\* the number of applies of a run with sublevels enabled
MaxSublevelCalls == 3
\* the number of seeks the readers charge through UpdateStats
MaxCharges == 101

Threads == {1, 2}
Readers == {1}
CompSlots == {1}
NoThread == 0
ApplyThread == 1

DiskNums == 1 .. 3
\* the levels an edit may name
EditLevels == {0, 1, 2}
ObjIds == 1 .. 4
VerIds == 1 .. 4
NoFile == [number |-> 0]
NoVersion == [refs |-> -1]
NoCompaction == [input_version |-> -1]
NoDisk == [exists |-> FALSE, recs |-> <<>>]
DiskFile(recs) == [exists |-> TRUE, recs |-> recs]

---------------------------------------------------------------------------
(* Options and configuration *)

rotating_manifest == FALSE
enable_should_stop_before == TRUE
enable_sublevel == FALSE
kMaxMemCompactLevel == 2
l0_compaction_trigger == 2
l1_compaction_trigger == 1
table_file_size == 16384
level_factor == 2
FileSizes == {16384}

---------------------------------------------------------------------------
(* Internal keys: <<user_key, sequence>>; the empty tuple is the empty key *)

NoKey == <<>>

\* InternalKeyComparator::Compare: ascending user key, then descending
\* sequence number
IcmpCompare(a, b) ==
  IF a[1] < b[1] THEN -1
  ELSE IF a[1] > b[1] THEN 1
  ELSE IF a[2] > b[2] THEN -1
  ELSE IF a[2] < b[2] THEN 1
  ELSE 0

Max(a, b) == IF a >= b THEN a ELSE b

\* std::vector::resize: truncate, or pad with value-initialised elements
Resize(s, n, pad) == [i \in 1 .. n |-> IF i <= Len(s) THEN s[i] ELSE pad]

\* the smallest id of a set of free ids (the allocator's choice does not
\* matter to the program; the model takes the least)
MinOf(S) == CHOOSE x \in S : \A y \in S : x <= y

FreeObjs(h) == {o \in ObjIds : h[o] = NoFile}
FreeVers(vv) == {v \in VerIds : vv[v] = NoVersion}

---------------------------------------------------------------------------
(* FileMetaData, Version::~Version, Version::Ref, Version::Unref *)

\* The objects' state as one record so that the operators below can be
\* composed: st.heap, st.versions, st.ring
State(h, vv, r) == [heap |-> h, versions |-> vv, ring |-> r]

\* A plausible slip: the file whose last reference goes is not freed
FileUnrefBelowZero(h, f) ==
  IF h[f].refs - 1 < 0 THEN [h EXCEPT ![f] = NoFile]
  ELSE [h EXCEPT ![f].refs = @ - 1]

\* f->refs--; if (f->refs <= 0) delete f;
FileUnref(h, f) ==
  IF h[f].refs - 1 <= 0 THEN [h EXCEPT ![f] = NoFile]
  ELSE [h EXCEPT ![f].refs = @ - 1]

RECURSIVE UnrefFiles(_, _, _)
\* the loop of ~Version and of ~Builder over a list of files
UnrefFiles(h, fs, i) ==
  IF i > Len(fs) THEN h ELSE UnrefFiles(FileUnref(h, fs[i]), fs, i + 1)

RECURSIVE Flatten(_, _)
\* the files of all levels of a files_ vector, in level order
Flatten(files, l) ==
  IF l > Len(files) THEN <<>> ELSE files[l] \o Flatten(files, l + 1)

\* Version::~Version: unlink from the ring, drop the references to files
VersionDelete(st, v) ==
  [heap |-> UnrefFiles(st.heap, Flatten(st.versions[v].files, 1), 1),
   versions |-> [st.versions EXCEPT ![v] = NoVersion],
   ring |-> SelectSeq(st.ring, LAMBDA x : x # v)]

\* Version::Ref
VersionRef(st, v) == [st EXCEPT !.versions[v].refs = @ + 1]

\* A plausible slip: the version whose last reference goes is not destroyed
VersionUnrefBelowZero(st, v) ==
  IF st.versions[v].refs - 1 < 0
  THEN VersionDelete([st EXCEPT !.versions[v].refs = 0], v)
  ELSE [st EXCEPT !.versions[v].refs = @ - 1]

\* Version::Unref: --refs_; if (refs_ == 0) delete this;
VersionUnref(st, v) ==
  IF st.versions[v].refs - 1 = 0
  THEN VersionDelete([st EXCEPT !.versions[v].refs = 0], v)
  ELSE [st EXCEPT !.versions[v].refs = @ - 1]

\* Version::Version (non-sublevel): kMaxMemCompactLevel + 1 empty levels,
\* no pools
NewVersion ==
  [refs |-> 0,
   files |-> [l \in 1 .. kMaxMemCompactLevel + 1 |-> <<>>],
   file_to_compact |-> 0,
   file_to_compact_level |-> -1,
   compaction_score |-> <<-1, 1>>,
   compaction_level |-> -1,
   input_pool |-> <<>>,
   output_pool |-> <<>>]

\* Version::Version (sublevel): two empty sublevels; a pool entry is
\* <<first sublevel, number of sublevels>>, level 0 first
NewSublevelVersion ==
  [NewVersion EXCEPT !.files = <<<<>>, <<>>>>,
                     !.input_pool = <<<<0, 1>>, <<1, 1>>>>,
                     !.output_pool = <<<<0, 1>>, <<2, 0>>>>]

\* new Version(vset) under the option enable_sublevel
VersionFor(sub) == IF sub THEN NewSublevelVersion ELSE NewVersion

---------------------------------------------------------------------------
(* VersionSet::Builder *)

\* BySmallestKey::operator()
BySmallestKey(h, f1, f2) ==
  LET r == IcmpCompare(h[f1].smallest, h[f2].smallest)
  IN IF r # 0 THEN r < 0 ELSE h[f1].number < h[f2].number

EmptyLevelState == [deleted_files |-> {}, added_files |-> {}]

\* Builder::Builder: base_->Ref(), one LevelState per level of the base
BuilderNew(st, base, sub) ==
  [st |-> VersionRef(st, base),
   b |-> [base |-> base,
          enable_sublevel |-> sub,
          levels |-> [l \in 1 .. Len(st.versions[base].files) |-> EmptyLevelState]]]

RECURSIVE SortFiles(_, _)
\* the iteration order of a FileSet (std::set ordered by BySmallestKey)
SortFiles(h, S) ==
  IF S = {} THEN <<>>
  ELSE LET m == CHOOSE x \in S : \A y \in S \ {x} : BySmallestKey(h, x, y)
       IN <<m>> \o SortFiles(h, S \ {m})

RECURSIVE ApplyCompactPointers(_, _, _)
\* Builder::Apply, "Update compaction pointers"
ApplyCompactPointers(cp, cps, i) ==
  IF i > Len(cps) THEN cp
  ELSE ApplyCompactPointers([cp EXCEPT ![cps[i][1] + 1] = cps[i][2]], cps, i + 1)

\* the allowed_seeks a new file starts with
AllowedSeeks(size) == IF size \div 16384 < 100 THEN 100 ELSE size \div 16384

RECURSIVE ApplyNewFiles(_, _, _, _)
\* Builder::Apply, "Add new files": a FileMetaData is allocated per entry with
\* refs = 1; std::set::insert keeps the set unchanged (and the new object
\* unreferenced) when an equivalent element is already in it
ApplyNewFiles(h, levels, nf, i) ==
  IF i > Len(nf) THEN [heap |-> h, levels |-> levels]
  ELSE LET f == MinOf(FreeObjs(h))
           m == nf[i]
           lv == m.level + 1
           h1 == [h EXCEPT ![f] = [number |-> m.number,
                                   file_size |-> m.file_size,
                                   smallest |-> m.smallest,
                                   largest |-> m.largest,
                                   refs |-> 1,
                                   allowed_seeks |-> AllowedSeeks(m.file_size)]]
           dup == \E g \in levels[lv].added_files :
                    /\ ~BySmallestKey(h1, f, g)
                    /\ ~BySmallestKey(h1, g, f)
           lv1 == [levels EXCEPT
                     ![lv].deleted_files = @ \ {m.number},
                     ![lv].added_files = IF dup THEN @ ELSE @ \cup {f}]
       IN ApplyNewFiles(h1, lv1, nf, i + 1)

\* A plausible slip: room for the levels the edit names and no more
LevelsForNoScratch(max_level) == max_level + 1

\* the number of levels an edit that names max_level asks for
LevelsFor(max_level) == max_level + 2

\* Builder::Apply: without sublevels it grows compact_pointer_ and levels_ to
\* max_level_ + 2 and records the compact pointers; then the deletions and
\* the new files
BuilderApply(h, cp, b, edit) ==
  LET cp1 == IF ~b.enable_sublevel /\ Len(cp) < LevelsFor(edit.max_level)
             THEN Resize(cp, LevelsFor(edit.max_level), NoKey) ELSE cp
      lv1 == IF ~b.enable_sublevel /\ Len(b.levels) < LevelsFor(edit.max_level)
             THEN Resize(b.levels, LevelsFor(edit.max_level), EmptyLevelState)
             ELSE b.levels
      cp2 == IF b.enable_sublevel THEN cp1
             ELSE ApplyCompactPointers(cp1, edit.compact_pointers, 1)
      lv2 == [l \in 1 .. Len(lv1) |->
                [lv1[l] EXCEPT !.deleted_files =
                   @ \cup {d[2] : d \in {x \in edit.deleted_files : x[1] = l - 1}}]]
      r == ApplyNewFiles(h, lv2, edit.new_files, 1)
  IN [heap |-> r.heap, cp |-> cp2, b |-> [b EXCEPT !.levels = r.levels]]

RECURSIVE UpperBound(_, _, _, _, _)
\* std::upper_bound(base_iter, base_end, added, cmp) over positions
\* first .. first + count - 1 of base
UpperBound(h, base, first, count, val) ==
  IF count <= 0 THEN first
  ELSE LET step == count \div 2
           it == first + step
       IN IF ~BySmallestKey(h, val, base[it])
          THEN UpperBound(h, base, it + 1, count - (step + 1), val)
          ELSE UpperBound(h, base, first, step, val)

\* A plausible slip: the added files are appended after the base files
MergeOrderNoMerge(h, base, added, ai, bi) == SubSeq(base, bi, Len(base)) \o added

RECURSIVE MergeOrder(_, _, _, _, _)
\* Builder::SaveTo, the merge of the added files with the base files: the
\* order in which MaybeAddFile is called for one level
MergeOrder(h, base, added, ai, bi) ==
  IF ai > Len(added) THEN SubSeq(base, bi, Len(base))
  ELSE LET bpos == UpperBound(h, base, bi, Len(base) + 1 - bi, added[ai])
       IN SubSeq(base, bi, bpos - 1) \o <<added[ai]>>
            \o MergeOrder(h, base, added, ai + 1, bpos)

\* A plausible slip: the deletions of the edit are ignored
MaybeAddFileKeepDeleted(r, level, ls, f) ==
  [r EXCEPT !.heap[f].refs = @ + 1, !.files = Append(@, f)]

\* Builder::MaybeAddFile (non-sublevel): r.files is v->files_[level]
MaybeAddFile(r, level, ls, f) ==
  IF r.heap[f].number \in ls.deleted_files THEN r
  ELSE LET n == Len(r.files)
           bad == /\ level > 0
                  /\ n > 0
                  /\ ~(IcmpCompare(r.heap[r.files[n]].largest, r.heap[f].smallest) < 0)
       IN [heap |-> [r.heap EXCEPT ![f].refs = @ + 1],
           files |-> Append(r.files, f),
           fault |-> IF bad /\ r.fault = "none" THEN "assert:MaybeAddFile" ELSE r.fault]

RECURSIVE MaybeAddFiles(_, _, _, _, _)
MaybeAddFiles(r, level, ls, order, i) ==
  IF i > Len(order) THEN r
  ELSE MaybeAddFiles(MaybeAddFile(r, level, ls, order[i]), level, ls, order, i + 1)

RECURSIVE SaveLevels(_, _, _, _, _)
\* Builder::SaveTo, the loop over the levels; r.files is v->files_
SaveLevels(r, b, basefiles, vfiles, l) ==
  IF l > Len(b.levels) THEN [heap |-> r.heap, files |-> vfiles, fault |-> r.fault]
  ELSE LET added == SortFiles(r.heap, b.levels[l].added_files)
           order == IF l <= Len(basefiles)
                    THEN MergeOrder(r.heap, basefiles[l], added, 1, 1)
                    ELSE added
           r1 == MaybeAddFiles([heap |-> r.heap, files |-> vfiles[l], fault |-> r.fault],
                               l - 1, b.levels[l], order, 1)
       IN SaveLevels(r1, b, basefiles, [vfiles EXCEPT ![l] = r1.files], l + 1)

\* Builder::SaveTo(v): returns the heap, v->files_ and the assertion state
BuilderSaveTo(h, vv, b, vfiles, flt) ==
  LET vf == IF Len(vfiles) < Len(b.levels) THEN Resize(vfiles, Len(b.levels), <<>>)
            ELSE vfiles
      r == SaveLevels([heap |-> h, files |-> <<>>, fault |-> flt], b,
                      vv[b.base].files, vf, 1)
  IN [r EXCEPT !.fault =
        IF r.fault = "none" /\ ~b.enable_sublevel /\ r.files[Len(r.files)] # <<>>
        THEN "assert:SaveTo" ELSE r.fault]

\* Builder::~Builder: unref every added file, then the base
BuilderDelete(st, b) ==
  LET added == Flatten([l \in 1 .. Len(b.levels) |->
                          SortFiles(st.heap, b.levels[l].added_files)], 1)
  IN VersionUnref([st EXCEPT !.heap = UnrefFiles(st.heap, added, 1)], b.base)

---------------------------------------------------------------------------
(* VersionEdit: the fields the builder and the version set read *)

MaxOfSet(S) == IF S = {} THEN 0 ELSE CHOOSE x \in S : \A y \in S : x >= y

\* VersionEdit::max_level_: the highest level the edit names
EditMaxLevel(cps, del, nf) ==
  MaxOfSet({cps[i][1] : i \in 1 .. Len(cps)} \cup {d[1] : d \in del}
           \cup {nf[i].level : i \in 1 .. Len(nf)})

\* An edit as its caller hands it over: no counter is set but, when haslog,
\* log_number
MkEdit(cmp, cps, del, nf, haslog, log) ==
  [comparator |-> cmp,
   has_log_number |-> haslog, log_number |-> log,
   has_prev_log_number |-> FALSE, prev_log_number |-> 0,
   has_next_file_number |-> FALSE, next_file_number |-> 0,
   has_last_sequence |-> FALSE, last_sequence |-> 0,
   compact_pointers |-> cps,
   deleted_files |-> del,
   new_files |-> nf,
   max_level |-> EditMaxLevel(cps, del, nf)]

FileMeta(level, number, size, smallest, largest) ==
  [level |-> level, number |-> number, file_size |-> size,
   smallest |-> smallest, largest |-> largest]

---------------------------------------------------------------------------
(* VersionSet: Finalize, AppendVersion, WriteSnapshot, MarkFileNumberUsed *)

\* INT_MAX, the largest value of an int
MaxInt == 2147483647

\* a + b for sizes kept in 64 bits (int64_t, uint64_t).  The integers of the
\* model end at MaxInt: a larger sum is kept as MaxInt, and every bound a sum
\* of sizes is compared with is smaller than that
SizeSum(a, b) == IF a > MaxInt - b THEN MaxInt ELSE a + b

\* bytes += b for an int bytes and a size 0 <= b <= MaxInt: the sum modulo
\* 2^32, a sum beyond MaxInt coming out as the sum less 2^32
IntSum(bytes, b) ==
  IF bytes > MaxInt - b THEN ((bytes - MaxInt) - 1) + ((b - MaxInt) - 1) ELSE bytes + b

RECURSIVE SumSizes(_, _, _)
\* TotalFileSize
SumSizes(h, fs, i) ==
  IF i > Len(fs) THEN 0 ELSE SizeSum(h[fs[i]].file_size, SumSizes(h, fs, i + 1))

TotalFileSize(h, fs) == SumSizes(h, fs, 1)

RECURSIVE Power(_, _)
Power(b, e) == IF e <= 0 THEN 1 ELSE b * Power(b, e - 1)

\* MaxBytesForLevel: l1_compaction_trigger * table_file_size for level 1,
\* times level_factor for every further level
MaxBytesForLevel(level) ==
  l1_compaction_trigger * table_file_size * Power(level_factor, level - 1)

RECURSIVE Gcd(_, _)
Gcd(m, n) == IF n = 0 THEN m ELSE Gcd(n, m % n)

\* A plausible slip: a later level with the same score takes over
ScoreAtLeast(a, b) ==
  a[1] * (b[2] \div Gcd(a[2], b[2])) >= b[1] * (a[2] \div Gcd(a[2], b[2]))

\* scores are the quotients n/d (d > 0) kept as <<n, d>>; a > b is decided
\* over the denominators with their common factor taken out
ScoreGreater(a, b) ==
  a[1] * (b[2] \div Gcd(a[2], b[2])) > b[1] * (a[2] \div Gcd(a[2], b[2]))
ScoreAtLeastOne(a) == a[1] >= a[2]

RECURSIVE FinalizeLoop(_, _, _, _)
\* VersionSet::Finalize (non-sublevel), the loop over the levels below the last
FinalizeLoop(h, files, level, best) ==
  IF level >= Len(files) - 1 THEN best
  ELSE LET score == IF level = 0
                    THEN <<Len(files[1]), l0_compaction_trigger>>
                    ELSE <<TotalFileSize(h, files[level + 1]), MaxBytesForLevel(level)>>
       IN FinalizeLoop(h, files, level + 1,
                       IF ScoreGreater(score, best.score)
                       THEN [level |-> level, score |-> score] ELSE best)

RECURSIVE PoolBytes(_, _, _, _)
\* the bytes of the sublevels first .. first + count - 1 of files
PoolBytes(h, files, first, count) ==
  IF count <= 0 THEN 0
  ELSE SizeSum(TotalFileSize(h, files[first + 1]),
               PoolBytes(h, files, first + 1, count - 1))

RECURSIVE FinalizeSublevelLoop(_, _, _, _)
\* VersionSet::Finalize (sublevel), the loop over the levels of the pools
\* below the last
FinalizeSublevelLoop(h, ver, level, best) ==
  IF level >= Len(ver.input_pool) - 1 THEN best
  ELSE LET ip == ver.input_pool[level + 1]
           op == ver.output_pool[level + 1]
           score == IF level = 0
                    THEN <<Len(ver.files[1]), l0_compaction_trigger>>
                    ELSE <<PoolBytes(h, ver.files, ip[1], ip[2])
                             + PoolBytes(h, ver.files, op[1], op[2]),
                           MaxBytesForLevel(level)>>
       IN FinalizeSublevelLoop(h, ver, level + 1,
                               IF ScoreGreater(score, best.score)
                               THEN [level |-> level, score |-> score] ELSE best)

\* VersionSet::Finalize(v): the version with compaction_level_ and
\* compaction_score_ set
Finalize(h, ver, sub) ==
  LET none == [level |-> -1, score |-> <<-1, 1>>]
      best == IF sub THEN FinalizeSublevelLoop(h, ver, 0, none)
              ELSE FinalizeLoop(h, ver.files, 0, none)
  IN [ver EXCEPT !.compaction_level = best.level, !.compaction_score = best.score]

FirstFault(old, cond, name) == IF old = "none" /\ ~cond THEN name ELSE old

RECURSIVE InputRows(_, _, _, _, _)
\* ReorganizeSublevels, the loop over the input pool of the current version
\* at a level: a sublevel is kept when it is the first of a pool that gets no
\* new sublevel, or when it holds files
InputRows(files, first_row, count, i, first) ==
  IF i >= count THEN <<>>
  ELSE (IF first \/ files[first_row + i + 1] # <<>>
        THEN <<files[first_row + i + 1]>> ELSE <<>>)
       \o InputRows(files, first_row, count, i + 1, FALSE)

\* ReorganizeSublevels, the loop over the output pool: the sublevels that
\* hold files
OutputRows(files, first_row, count) == InputRows(files, first_row, count, 0, FALSE)

RECURSIVE IntBytes(_, _, _, _)
\* ReorganizeSublevels, bytes += TotalFileSize(files[row]) with "int bytes":
\* the sizes of the files of the row are added modulo 2^32, one by one
IntBytes(h, fs, i, bytes) ==
  IF i > Len(fs) THEN bytes
  ELSE IntBytes(h, fs, i + 1, IntSum(bytes, h[fs[i]].file_size))

RECURSIVE RowsBytesLoop(_, _, _, _)
RowsBytesLoop(h, rows, i, bytes) ==
  IF i > Len(rows) THEN bytes
  ELSE RowsBytesLoop(h, rows, i + 1, IntBytes(h, rows[i], 1, bytes))

\* ReorganizeSublevels, bytes once the sublevels of the input pool are copied
RowsBytes(h, rows, i) == RowsBytesLoop(h, rows, i, 0)

\* A plausible slip: level 0 is left out of the output pool
ReorganizeLevelZeroInputOnly(files, edit, flt) ==
  [files |-> <<files[1]>>,
   input_pool |-> <<<<0, 1>>>>,
   output_pool |-> <<<<0, 0>>>>,
   new_input_sublevel |-> /\ edit.deleted_files # {}
                          /\ \E d \in edit.deleted_files :
                               /\ d[1] = 0
                               /\ \A x \in edit.deleted_files : d[1] <= x[1],
   fault |-> flt]

\* ReorganizeSublevels, level 0 of the loop: r is the version being laid out
\* (files, input_pool, output_pool), new_input_sublevel and the fault state
ReorganizeLevelZero(files, edit, flt) ==
  [files |-> <<files[1]>>,
   input_pool |-> <<<<0, 1>>>>,
   output_pool |-> <<<<0, 1>>>>,
   new_input_sublevel |-> /\ edit.deleted_files # {}
                          /\ \E d \in edit.deleted_files :
                               /\ d[1] = 0
                               /\ \A x \in edit.deleted_files : d[1] <= x[1],
   fault |-> flt]

\* ReorganizeSublevels, the end of a level >= 1: the output pool is empty and
\* the input pool is full (prepare), so all but the top sublevel of the input
\* pool become the output pool, a lone sublevel being moved down one row
ReorganizePrepared(h, r, level, files1, length1) ==
  LET split == length1 = 1
      files3 == IF split
                THEN SubSeq(files1, 1, Len(files1) - 1) \o <<<<>>, files1[Len(files1)]>>
                ELSE files1
      second == IF split THEN 2 ELSE length1
      length == second - 1
      ip == <<Len(r.files), 1>>
      op == <<Len(r.files) + 1, length>>
  IN [r EXCEPT !.files = files3,
               !.input_pool = Append(@, ip),
               !.output_pool = Append(@, op),
               !.fault = IF @ = "none" /\ length = 0
                         THEN "abort:ReorganizeSublevels" ELSE @]

\* ReorganizeSublevels, the end of a level >= 1 otherwise; abort2 is the
\* check under "#if 1"
ReorganizeKept(h, r, level, files1, length1, files2, length) ==
  LET bbytes == PoolBytes(h, files2, Len(r.files), length1)
                  + PoolBytes(h, files2, Len(files1), length)
  IN [r EXCEPT !.files = files2,
               !.input_pool = Append(@, <<Len(r.files), length1>>),
               !.output_pool = Append(@, <<Len(files1), length>>),
               !.fault = IF @ = "none" /\ length = 0 /\ bbytes >= MaxBytesForLevel(level)
                         THEN "abort:ReorganizeSublevels" ELSE @]

\* ReorganizeSublevels, a level >= 1 of the loop once the input sublevels
\* (inrows, bytes in all) and the output sublevels (outrows) are copied
ReorganizeCopied(h, cur, r, level, inrows, bytes, outrows) ==
  LET f1 == FirstFault(r.fault, inrows # <<>>, "assert:ReorganizeSublevels")
      r1 == [r EXCEPT !.fault = f1,
                      !.new_input_sublevel =
                         /\ outrows = <<>>
                         /\ level + 1 < Len(cur.input_pool)
                         /\ cur.input_pool[level + 2][2] > 0]
  IN IF outrows = <<>> /\ bytes >= MaxBytesForLevel(level) - 1
     THEN ReorganizePrepared(h, r1, level, r.files \o inrows, Len(inrows))
     ELSE ReorganizeKept(h, r1, level, r.files \o inrows, Len(inrows),
                         r.files \o inrows \o outrows, Len(outrows))

\* A plausible slip: the loop over the output pool reads the rows of the
\* input pool
ReorganizeLevelInputTwice(h, cur, files, r, level) ==
  LET ip == cur.input_pool[level + 1]
      op == cur.output_pool[level + 1]
      inrows == (IF r.new_input_sublevel THEN <<<<>>>> ELSE <<>>)
                  \o InputRows(files, ip[1], ip[2], 0, ~r.new_input_sublevel)
  IN ReorganizeCopied(h, cur, r, level, inrows, RowsBytes(h, inrows, 1),
                      OutputRows(files, ip[1], IF op[2] > ip[2] THEN ip[2] ELSE op[2]))

\* ReorganizeSublevels, a level >= 1 of the loop
ReorganizeLevel(h, cur, files, r, level) ==
  LET ip == cur.input_pool[level + 1]
      op == cur.output_pool[level + 1]
      inrows == (IF r.new_input_sublevel THEN <<<<>>>> ELSE <<>>)
                  \o InputRows(files, ip[1], ip[2], 0, ~r.new_input_sublevel)
  IN ReorganizeCopied(h, cur, r, level, inrows, RowsBytes(h, inrows, 1),
                      OutputRows(files, op[1], op[2]))

RECURSIVE ReorganizeLevels(_, _, _, _, _)
ReorganizeLevels(h, cur, files, r, level) ==
  IF level >= Len(cur.input_pool) THEN r
  ELSE ReorganizeLevels(h, cur, files, ReorganizeLevel(h, cur, files, r, level), level + 1)

\* A plausible slip: no level is added after a last level that is being
\* compacted
ReorganizeLastLevelKept(r) == r

\* ReorganizeSublevels after the loop: a last level whose output pool holds
\* sublevels is followed by a new, empty level
ReorganizeLastLevel(r) ==
  IF r.output_pool[Len(r.output_pool)][2] > 0
  THEN [r EXCEPT !.files = Append(@, <<>>),
                 !.input_pool = Append(@, <<Len(r.files), 1>>),
                 !.output_pool = Append(@, <<Len(r.files) + 1, 0>>)]
  ELSE r

\* ReorganizeSublevels, the assertions it ends with
ReorganizeChecked(r) ==
  [r EXCEPT !.fault =
     FirstFault(@,
                /\ r.output_pool[Len(r.output_pool)][1] = Len(r.files)
                /\ r.output_pool[Len(r.output_pool)][2] = 0,
                "assert:ReorganizeSublevels")]

\* VersionSet::ReorganizeSublevels(version, edit): version as SaveTo left it,
\* cur being current_; the files are laid out anew, pool by pool
ReorganizeSublevels(h, cur, version, edit, flt) ==
  LET f1 == FirstFault(flt,
                       /\ Len(version.input_pool) = Len(version.output_pool)
                       /\ Len(version.input_pool) = 2,
                       "assert:ReorganizeSublevels")
      r == ReorganizeChecked(ReorganizeLastLevel(
             ReorganizeLevels(h, cur, version.files,
                              ReorganizeLevelZero(version.files, edit, f1), 1)))
  IN [version |-> [version EXCEPT !.files = r.files,
                                  !.input_pool = r.input_pool,
                                  !.output_pool = r.output_pool],
      fault |-> r.fault]

\* A plausible slip: the ring is replaced by the new version
AppendVersionDropRing(w, v) ==
  LET st0 == State(w.heap, w.versions, w.ring)
      st1 == IF w.vs.current # 0 THEN VersionUnref(st0, w.vs.current) ELSE st0
      st2 == VersionRef(st1, v)
  IN [w EXCEPT !.heap = st2.heap, !.versions = st2.versions,
               !.ring = <<v>>, !.vs.current = v]

\* VersionSet::AppendVersion(v): unref the old current, make v current with
\* a reference, link v at the tail of the ring.  w is the world: heap,
\* versions, ring, vs, fault
AppendVersion(w, v) ==
  LET f1 == FirstFault(w.fault,
                       /\ w.versions[v].refs = 0
                       /\ v # w.vs.current
                       /\ \/ w.vs.enable_sublevel
                          \/ Len(w.versions[v].files) <= Len(w.vs.compact_pointer),
                       "assert:AppendVersion")
      st0 == State(w.heap, w.versions, w.ring)
      st1 == IF w.vs.current # 0 THEN VersionUnref(st0, w.vs.current) ELSE st0
      st2 == VersionRef(st1, v)
  IN [w EXCEPT !.heap = st2.heap, !.versions = st2.versions,
               !.ring = Append(st2.ring, v), !.vs.current = v, !.fault = f1]

World(h, vv, r, s, f) ==
  [heap |-> h, versions |-> vv, ring |-> r, vs |-> s, fault |-> f]

WorldOf(st, s, f) == World(st.heap, st.versions, st.ring, s, f)

\* the objects, the version set and the assertion state become those of w
SetWorld(w) ==
  /\ heap' = w.heap
  /\ versions' = w.versions
  /\ ring' = w.ring
  /\ vs' = w.vs
  /\ fault' = w.fault

\* VersionSet::MarkFileNumberUsed
MarkFileNumberUsed(vsr, number) ==
  IF vsr.next_file_number <= number
  THEN [vsr EXCEPT !.next_file_number = number + 1] ELSE vsr

\* A plausible slip: the loop over a level stops after its first file
SnapshotLevelFirstOnly(h, fs, level) ==
  [i \in 1 .. (IF fs = <<>> THEN 0 ELSE 1) |->
     FileMeta(level, h[fs[i]].number, h[fs[i]].file_size,
              h[fs[i]].smallest, h[fs[i]].largest)]

\* WriteSnapshot's inner loop: edit.AddFile for every file of a level
SnapshotLevel(h, fs, level) ==
  [i \in 1 .. Len(fs) |->
     FileMeta(level, h[fs[i]].number, h[fs[i]].file_size,
              h[fs[i]].smallest, h[fs[i]].largest)]

RECURSIVE SnapshotFiles(_, _, _)
SnapshotFiles(h, files, l) ==
  IF l > Len(files) THEN <<>>
  ELSE SnapshotLevel(h, files[l], l - 1) \o SnapshotFiles(h, files, l + 1)

RECURSIVE SnapshotPointers(_, _)
SnapshotPointers(cp, l) ==
  IF l > Len(cp) THEN <<>>
  ELSE (IF cp[l] # NoKey THEN <<<<l - 1, cp[l]>>>> ELSE <<>>)
       \o SnapshotPointers(cp, l + 1)

\* VersionSet::WriteSnapshot: the edit it encodes (the comparator name, the
\* non-empty compact pointers, every file of every level of current_)
SnapshotEdit(h, vv, vsr) ==
  MkEdit("ok", SnapshotPointers(vsr.compact_pointer, 1), {},
         SnapshotFiles(h, vv[vsr.current].files, 1), FALSE, 0)

---------------------------------------------------------------------------
(* VersionSet::Recover *)

NullBuilder == [base |-> 0, levels |-> <<>>]

\* a descriptor record: a decodable edit, or one the log reader reports as
\* corrupt, or one VersionEdit::DecodeFrom rejects
EditRecord(call, e) == [type |-> "edit", call |-> call, edit |-> e]
CorruptRecord == [type |-> "corrupt"]
UndecodableRecord == [type |-> "undecodable"]

RECURSIVE RecoverRead(_, _, _)
\* the loop "while (reader.ReadRecord(...) && s.ok())" over one candidate;
\* a is the loop's state: heap, cp, b, s and the counters seen so far
RecoverRead(a, recs, k) ==
  IF k > Len(recs) \/ a.s # "OK" THEN a
  ELSE LET rec == recs[k]
       IN IF rec.type = "corrupt"
          THEN [a EXCEPT !.s = "Corruption"]
          ELSE IF rec.type = "undecodable"
          THEN RecoverRead([a EXCEPT !.s = "Corruption"], recs, k + 1)
          ELSE LET e == rec.edit
                   s1 == IF e.comparator = "bad" THEN "InvalidArgument" ELSE "OK"
                   ap == IF s1 = "OK" THEN BuilderApply(a.heap, a.cp, a.b, e)
                         ELSE [heap |-> a.heap, cp |-> a.cp, b |-> a.b]
               IN RecoverRead(
                    [heap |-> ap.heap, cp |-> ap.cp, b |-> ap.b, s |-> s1,
                     have_log_number |-> a.have_log_number \/ e.has_log_number,
                     log_number |-> IF e.has_log_number THEN e.log_number
                                    ELSE a.log_number,
                     have_prev_log_number |->
                       a.have_prev_log_number \/ e.has_prev_log_number,
                     prev_log_number |-> IF e.has_prev_log_number
                                         THEN e.prev_log_number ELSE a.prev_log_number,
                     have_next_file |-> a.have_next_file \/ e.has_next_file_number,
                     next_file |-> IF e.has_next_file_number THEN e.next_file_number
                                   ELSE a.next_file,
                     have_last_sequence |-> a.have_last_sequence \/ e.has_last_sequence,
                     last_seq |-> IF e.has_last_sequence THEN e.last_sequence
                                  ELSE a.last_seq],
                    recs, k + 1)

\* the names of the three candidates: MANIFEST-1, MANIFEST-2 and the file
\* CURRENT names (0: no such candidate)
RecoverNames(dsk, cur) ==
  LET n1 == IF dsk[1].exists THEN 1 ELSE 0
      n2 == IF dsk[2].exists THEN 2 ELSE 0
      n3 == IF cur = 0 \/ cur = n1 \/ cur = n2 THEN 0 ELSE cur
  IN <<n1, n2, n3>>

\* the world w with the objects of st
WithState(w, st) ==
  [w EXCEPT !.heap = st.heap, !.versions = st.versions, !.ring = st.ring]

\* A plausible slip: the test for the log number is left out
MissingCounterButLog(a) == ~a.have_next_file \/ ~a.have_last_sequence

\* "no next_file entry", "no log_number entry", "no last_seq_number entry"
MissingCounter(a) ==
  ~a.have_next_file \/ ~a.have_log_number \/ ~a.have_last_sequence

\* A plausible slip: every valid candidate replaces the one selected before
TupleAtLeastAlways(last_seq, next_file, log_number, prev_log_number, r) == TRUE

\* the candidate's counters against the final_* counters of the selection
TupleAtLeast(last_seq, next_file, log_number, prev_log_number, r) ==
  /\ last_seq >= r.final_last_seq
  /\ next_file >= r.final_next_file
  /\ log_number >= r.final_log_number
  /\ prev_log_number >= r.final_prev_log_number

\* one round of the loop over the candidates, from the end of the records
\* of the candidate: a is what was read, nb the builder as created
RecoverCandidateEnd(r, i, nb, a) ==
  LET s2 == IF a.s # "OK" THEN a.s
            ELSE IF MissingCounter(a)
            THEN "Corruption" ELSE "OK"
      prev == IF a.have_prev_log_number THEN a.prev_log_number ELSE 0
      vs1 == [r.w.vs EXCEPT !.compact_pointer = a.cp]
      vs2 == IF a.s = "OK"
             THEN MarkFileNumberUsed(MarkFileNumberUsed(vs1, prev), a.log_number)
             ELSE vs1
      wins == TupleAtLeast(a.last_seq, a.next_file, a.log_number, prev, r)
  IN IF s2 = "OK"
     THEN [r EXCEPT !.w = WithState([r.w EXCEPT !.vs = vs2],
                                    State(a.heap, nb.st.versions, nb.st.ring)),
                    !.candidates[i] = a.b,
                    !.selected = IF wins THEN i ELSE @,
                    !.final_last_seq = IF wins THEN a.last_seq ELSE @,
                    !.final_next_file = IF wins THEN a.next_file ELSE @,
                    !.final_log_number = IF wins THEN a.log_number ELSE @,
                    !.final_prev_log_number = IF wins THEN prev ELSE @]
     ELSE [r EXCEPT !.w = WithState([r.w EXCEPT !.vs = vs2],
                                    BuilderDelete(State(a.heap, nb.st.versions,
                                                        nb.st.ring), a.b)),
                    !.status = IF @ = "OK" THEN s2 ELSE @]

\* the records of the candidate are read into its builder
RecoverCandidateRead(r, recs, i, nb) ==
  RecoverCandidateEnd(r, i, nb,
    RecoverRead([heap |-> nb.st.heap, cp |-> r.w.vs.compact_pointer, b |-> nb.b,
                 s |-> "OK",
                 have_log_number |-> FALSE, log_number |-> 0,
                 have_prev_log_number |-> FALSE, prev_log_number |-> 0,
                 have_next_file |-> FALSE, next_file |-> 0,
                 have_last_sequence |-> FALSE, last_seq |-> 0],
                recs, 1))

\* one round of the loop over the candidates; r is the loop's state: the
\* world w, candidates, selected, the final_* counters, status
RecoverCandidate(r, dsk, name, i, current) ==
  IF name = 0 THEN r
  ELSE IF ~dsk[name].exists
  THEN [r EXCEPT !.status = IF @ = "OK" THEN "IOError" ELSE @]
  ELSE RecoverCandidateRead(r, dsk[name].recs, i,
                            BuilderNew(State(r.w.heap, r.w.versions, r.w.ring), current,
                                       r.w.vs.enable_sublevel))

RECURSIVE DeleteCandidates(_, _, _)
DeleteCandidates(st, cands, i) ==
  IF i > Len(cands) THEN st
  ELSE DeleteCandidates(IF cands[i] = NullBuilder THEN st
                        ELSE BuilderDelete(st, cands[i]), cands, i + 1)

\* Recover, the end: the builders are deleted, current->Unref()
RecoverCleanup(w5, status, cands, current) ==
  [w |-> WithState(w5, VersionUnref(DeleteCandidates(State(w5.heap, w5.versions, w5.ring),
                                                      cands, 1),
                                    current)),
   status |-> status]

\* Recover, "Install recovered version": the counters after AppendVersion
RecoverCounters(w4, rot, r3) ==
  [w4 EXCEPT
     !.vs.next_file_number = IF ~rot THEN r3.final_next_file + 1 ELSE r3.final_next_file,
     !.vs.manifest_file_number = IF ~rot THEN r3.final_next_file
                                 ELSE IF r3.selected = 1 THEN 2 ELSE 1,
     !.vs.log_number = r3.final_log_number,
     !.vs.prev_log_number = r3.final_prev_log_number,
     !.vs.last_sequence = r3.final_last_seq]

\* Recover, the version saved from the selected builder, finalized, appended
RecoverInstall(r3, v, sv) ==
  AppendVersion([r3.w EXCEPT !.heap = sv.heap,
                             !.versions[v] =
                                Finalize(sv.heap,
                                         [VersionFor(r3.w.vs.enable_sublevel)
                                            EXCEPT !.files = sv.files],
                                         r3.w.vs.enable_sublevel),
                             !.fault = sv.fault],
                v)

\* Recover after the loop over the candidates
RecoverSelected(r3, status, rot, current) ==
  RecoverCleanup(
    IF status = "OK"
    THEN RecoverCounters(
           RecoverInstall(r3, MinOf(FreeVers(r3.w.versions)),
                          BuilderSaveTo(r3.w.heap, r3.w.versions,
                                        r3.candidates[r3.selected],
                                        VersionFor(r3.w.vs.enable_sublevel).files,
                                        r3.w.fault)),
           rot, r3)
    ELSE r3.w,
    status, r3.candidates, current)

\* the status once every candidate was read
RecoverStatus(r3) ==
  IF r3.status = "OK" /\ r3.selected = 0 THEN "Corruption" ELSE r3.status

\* Recover after the loop over the candidates, r3 being the loop's state
RecoverLoopEnd(r3, rot, current) == RecoverSelected(r3, RecoverStatus(r3), rot, current)

\* the loop's state before the first candidate: current->Ref()
RecoverStart(w) ==
  [w |-> WithState(w, VersionRef(State(w.heap, w.versions, w.ring), w.vs.current)),
   candidates |-> <<NullBuilder, NullBuilder, NullBuilder>>,
   selected |-> 0,
   final_next_file |-> 0, final_last_seq |-> 0,
   final_log_number |-> 0, final_prev_log_number |-> 0,
   status |-> "OK"]

\* the loop over the three candidates
RecoverLoop(w, dsk, names) ==
  RecoverCandidate(
    RecoverCandidate(
      RecoverCandidate(RecoverStart(w), dsk, names[1], 1, w.vs.current),
      dsk, names[2], 2, w.vs.current),
    dsk, names[3], 3, w.vs.current)

\* VersionSet::Recover: the world after it and its status
RecoverResult(w, dsk, cur) ==
  RecoverLoopEnd(RecoverLoop(w, dsk, RecoverNames(dsk, cur)),
                 w.vs.rotating_manifest, w.vs.current)

---------------------------------------------------------------------------
(* The initial state: the VersionSet as constructed, over a database        *)
(* directory that holds MANIFEST-1 and a CURRENT file naming it             *)

WithCounters(e, log, next, seq) ==
  [e EXCEPT !.has_log_number = TRUE, !.log_number = log,
            !.has_next_file_number = TRUE, !.next_file_number = next,
            !.has_last_sequence = TRUE, !.last_sequence = seq]

\* the descriptor of a new, empty database
NewDBEdit == WithCounters(MkEdit("ok", <<>>, {}, <<>>, FALSE, 0), 0, 2, 0)

\* the descriptor of a database that holds table 2 in level 1
OneFileEdit ==
  WithCounters(MkEdit("ok", <<>>, {}, <<FileMeta(1, 2, 16384, <<1, 2>>, <<1, 1>>)>>,
                      FALSE, 0), 0, 3, 1)

InitialDescriptors == {<<EditRecord(0, NewDBEdit)>>, <<EditRecord(0, OneFileEdit)>>}

RotatingModes == {rotating_manifest}

\* VersionSet::VersionSet: the counters, an empty compact_pointer_ per level
\* and AppendVersion(new Version(this))
ConstructedWith(rot, sub) ==
  AppendVersion(
    World([o \in ObjIds |-> NoFile],
          [v \in VerIds |-> IF v = 1 THEN VersionFor(sub) ELSE NoVersion],
          <<>>,
          [next_file_number |-> 2, manifest_file_number |-> 0,
           last_sequence |-> 0, log_number |-> 0, prev_log_number |-> 0,
           descriptor_log |-> 0, current |-> 0,
           compact_pointer |-> IF sub THEN <<>>
                               ELSE [l \in 1 .. kMaxMemCompactLevel + 1 |-> NoKey],
           rotating_manifest |-> rot,
           enable_should_stop_before |-> enable_should_stop_before,
           enable_sublevel |-> sub],
          "none"),
    1)

\* the version set of the default options but for rotating_manifest
Constructed(rot) == ConstructedWith(rot, enable_sublevel)

IdleLoc == [call |-> 0]

\* no PickCompaction has returned yet
NoPick == [done |-> FALSE]

\* no Get has returned yet
NoGet == [done |-> FALSE]
NoOutput == [done |-> FALSE]
NoStream == [calls |-> 0, key |-> NoKey, stop |-> [done |-> FALSE], base |-> [done |-> FALSE]]

InitIn(mode, rots) ==
  /\ \E rot \in rots :
       LET w == Constructed(rot)
       IN /\ heap = w.heap
          /\ versions = w.versions
          /\ ring = w.ring
          /\ vs = w.vs
          /\ fault = w.fault
  /\ \E d \in InitialDescriptors :
       disk = [n \in DiskNums |-> IF n = 1 THEN DiskFile(d) ELSE NoDisk]
  /\ durable = [n \in DiskNums |-> IF n = 1 THEN 1 ELSE 0]
  /\ current_file = 1
  /\ mu = NoThread
  /\ pc = [t \in Threads |-> "idle"]
  /\ loc = [t \in Threads |-> IdleLoc]
  /\ held = [r \in Readers |-> 0]
  /\ comp = [c \in CompSlots |-> NoCompaction]
  /\ phase = "constructed"
  /\ callers = mode
  /\ hist = [calls |-> 0, charges |-> 0, base |-> <<>>, installed |-> <<>>,
             order |-> <<>>, producer |-> 0, ret |-> <<>>, pinned |-> [r \in Readers |-> 0],
             seek |-> 0, overlapped |-> FALSE, recover |-> "none",
             pick |-> NoPick, get |-> NoGet, stream |-> NoStream,
             updated |-> FALSE, output |-> NoOutput]

InitWith(mode) == InitIn(mode, RotatingModes)

Init == InitWith("serial")
InitFree == InitWith("free")
InitSeek == InitWith("seek")

\* the per-level sets of file descriptions of a files_ vector
FileSets(h, files) ==
  [l \in 1 .. Len(files) |->
     {[number |-> h[files[l][i]].number, file_size |-> h[files[l][i]].file_size,
       smallest |-> h[files[l][i]].smallest, largest |-> h[files[l][i]].largest]
        : i \in 1 .. Len(files[l])}]

\* Recover's effect r on the state
RecoverDone(r) ==
  /\ SetWorld(r.w)
  /\ phase' = IF r.status = "OK" THEN "open" ELSE "failed"
  /\ hist' = [hist EXCEPT !.base = FileSets(r.w.heap, r.w.versions[r.w.vs.current].files),
                           !.recover = r.status]

\* DBImpl::Open calls Recover once, before any other operation
Recover ==
  /\ phase = "constructed"
  /\ RecoverDone(RecoverResult(World(heap, versions, ring, vs, fault), disk, current_file))
  /\ UNCHANGED <<disk, durable, current_file, mu, pc, loc, held, comp, callers>>

---------------------------------------------------------------------------
(* Compactions: VersionSet::PickCompaction and what it calls *)

\* MaxGrandParentOverlapBytes
MaxGrandParentOverlapBytes == level_factor * table_file_size

\* ExpandedCompactionByteSizeLimit
ExpandedCompactionByteSizeLimit == (2 * (level_factor + 2) + 1) * table_file_size

RECURSIVE GetRangeLoop(_, _, _, _)
\* VersionSet::GetRange: the smallest and the largest internal key of inputs
GetRangeLoop(h, inputs, i, r) ==
  IF i > Len(inputs) THEN r
  ELSE GetRangeLoop(h, inputs, i + 1,
         IF i = 1 THEN [smallest |-> h[inputs[1]].smallest, largest |-> h[inputs[1]].largest]
         ELSE [smallest |-> IF IcmpCompare(h[inputs[i]].smallest, r.smallest) < 0
                            THEN h[inputs[i]].smallest ELSE r.smallest,
               largest |-> IF IcmpCompare(h[inputs[i]].largest, r.largest) > 0
                           THEN h[inputs[i]].largest ELSE r.largest])

GetRange(h, inputs) == GetRangeLoop(h, inputs, 1, [smallest |-> NoKey, largest |-> NoKey])

\* VersionSet::GetRange2
GetRange2(h, inputs1, inputs2) == GetRange(h, inputs1 \o inputs2)

\* GetOverlappingInputs, "f is completely before specified range; skip it"
BeforeRange(begin, file_limit, user_begin) == begin # NoKey /\ file_limit < user_begin

\* A plausible slip: a file that starts at the end of the range is skipped
AfterRangeInclusive(end, file_start, user_end) == end # NoKey /\ file_start >= user_end

\* GetOverlappingInputs, "f is completely after specified range; skip it"
AfterRange(end, file_start, user_end) == end # NoKey /\ file_start > user_end

RECURSIVE GetOverlappingLoop(_, _, _, _, _, _, _, _, _)
\* Version::GetOverlappingInputs, the loop: in level 0 a file that widens
\* the range restarts the search with the wider range; begin and end are
\* NoKey for NULL, and then user_begin and user_end are not looked at
GetOverlappingLoop(h, fs, level, begin, end, user_begin, user_end, i, inputs) ==
  IF i > Len(fs) THEN inputs
  ELSE LET file_start == h[fs[i]].smallest[1]
           file_limit == h[fs[i]].largest[1]
       IN IF BeforeRange(begin, file_limit, user_begin)
          THEN GetOverlappingLoop(h, fs, level, begin, end, user_begin, user_end, i + 1,
                                  inputs)
          ELSE IF AfterRange(end, file_start, user_end)
          THEN GetOverlappingLoop(h, fs, level, begin, end, user_begin, user_end, i + 1,
                                  inputs)
          ELSE IF level = 0 /\ begin # NoKey /\ file_start < user_begin
          THEN GetOverlappingLoop(h, fs, level, begin, end, file_start, user_end, 1, <<>>)
          ELSE IF level = 0 /\ end # NoKey /\ file_limit > user_end
          THEN GetOverlappingLoop(h, fs, level, begin, end, user_begin, file_limit, 1, <<>>)
          ELSE GetOverlappingLoop(h, fs, level, begin, end, user_begin, user_end, i + 1,
                                  Append(inputs, fs[i]))

\* Version::GetOverlappingInputs(level, begin, end, inputs); begin or end
\* is NoKey for NULL (REQUIRES level < files_.size())
GetOverlappingInputs(h, ver, level, begin, end) ==
  IF level + 1 > Len(ver.files) THEN <<>>
  ELSE GetOverlappingLoop(h, ver.files[level + 1], level, begin, end,
                          IF begin = NoKey THEN 0 ELSE begin[1],
                          IF end = NoKey THEN 0 ELSE end[1], 1, <<>>)

\* Version::NumLevels
NumLevels(ver) == Len(ver.files)

\* Compaction::Compaction without sublevels, for the version v of
\* num_levels levels: the Compaction object PickCompaction hands out
MkCompaction(v, num_levels, level, inputs0) ==
  [input_version |-> v, level |-> level, inputs |-> <<inputs0, <<>>>>,
   grandparents |-> <<>>, compact_pointers |-> <<>>,
   grandparent_index |-> 0, seen_key |-> FALSE, overlapped_bytes |-> 0,
   level_ptrs |-> [i \in 1 .. num_levels |-> 0]]

\* A plausible slip: the wider inputs are taken whatever they overlap in
\* level + 1
ExpandInputsUnchecked(h, ver, level, in0, in1, all) ==
  LET expanded0 == GetOverlappingInputs(h, ver, level, all.smallest, all.largest)
      new == GetRange(h, expanded0)
      expanded1 == GetOverlappingInputs(h, ver, level + 1, new.smallest, new.largest)
  IN IF /\ in1 # <<>>
        /\ Len(expanded0) > Len(in0)
        /\ TotalFileSize(h, in1) + TotalFileSize(h, expanded0)
             < ExpandedCompactionByteSizeLimit
     THEN [in0 |-> expanded0, in1 |-> expanded1, largest |-> new.largest,
           all |-> GetRange2(h, expanded0, expanded1)]
     ELSE [in0 |-> in0, in1 |-> in1, largest |-> GetRange(h, in0).largest, all |-> all]

\* SetupOtherInputs, "See if we can grow the number of inputs in level
\* without changing the number of level+1 files we pick up"
ExpandInputs(h, ver, level, in0, in1, all) ==
  LET expanded0 == GetOverlappingInputs(h, ver, level, all.smallest, all.largest)
      new == GetRange(h, expanded0)
      expanded1 == GetOverlappingInputs(h, ver, level + 1, new.smallest, new.largest)
  IN IF /\ in1 # <<>>
        /\ Len(expanded0) > Len(in0)
        /\ TotalFileSize(h, in1) + TotalFileSize(h, expanded0)
             < ExpandedCompactionByteSizeLimit
        /\ Len(expanded1) = Len(in1)
     THEN [in0 |-> expanded0, in1 |-> expanded1, largest |-> new.largest,
           all |-> GetRange2(h, expanded0, expanded1)]
     ELSE [in0 |-> in0, in1 |-> in1, largest |-> GetRange(h, in0).largest, all |-> all]

\* A plausible slip: compact_pointer_[level] and the compaction's edit take
\* the largest key of the whole compaction
SetupGrandparentsWholeRange(w, c, x) ==
  [w |-> [w EXCEPT !.vs.compact_pointer =
                     IF c.level + 1 <= Len(@)
                     THEN [@ EXCEPT ![c.level + 1] = x.all.largest] ELSE @],
   c |-> [c EXCEPT !.inputs = <<x.in0, x.in1>>,
                   !.grandparents =
                      IF c.level + 2 < Len(w.versions[w.vs.current].files)
                      THEN GetOverlappingInputs(w.heap, w.versions[w.vs.current],
                                                c.level + 2, x.all.smallest, x.all.largest)
                      ELSE <<>>,
                   !.compact_pointers = <<<<c.level, x.all.largest>>>>]]

\* SetupOtherInputs from the grandparents on: compact_pointer_[level] and
\* the compaction's edit take the largest key of the inputs of level
SetupGrandparents(w, c, x) ==
  [w |-> [w EXCEPT !.vs.compact_pointer =
                     IF c.level + 1 <= Len(@)
                     THEN [@ EXCEPT ![c.level + 1] = x.largest] ELSE @],
   c |-> [c EXCEPT !.inputs = <<x.in0, x.in1>>,
                   !.grandparents =
                      IF c.level + 2 < Len(w.versions[w.vs.current].files)
                      THEN GetOverlappingInputs(w.heap, w.versions[w.vs.current],
                                                c.level + 2, x.all.smallest, x.all.largest)
                      ELSE <<>>,
                   !.compact_pointers = <<<<c.level, x.largest>>>>]]

\* SetupOtherInputs once inputs_[1] is known
SetupExpanded(w, c, in1) ==
  SetupGrandparents(w, c,
    ExpandInputs(w.heap, w.versions[w.vs.current], c.level, c.inputs[1], in1,
                 GetRange2(w.heap, c.inputs[1], in1)))

\* VersionSet::SetupOtherInputs(c)
SetupOtherInputs(w, c) ==
  SetupExpanded([w EXCEPT !.fault =
                   FirstFault(@,
                              /\ Len(w.versions[w.vs.current].files)
                                   = Len(w.vs.compact_pointer)
                              /\ c.level < Len(w.vs.compact_pointer),
                              "assert:SetupOtherInputs")],
                c,
                GetOverlappingInputs(w.heap, w.versions[w.vs.current], c.level + 1,
                                     GetRange(w.heap, c.inputs[1]).smallest,
                                     GetRange(w.heap, c.inputs[1]).largest))

\* A plausible slip: a file that ends at compact_pointer_[level] is picked
\* again
FirstAtOrAfterPointer(h, fs, cp) ==
  LET after == {i \in 1 .. Len(fs) : cp = NoKey \/ IcmpCompare(h[fs[i]].largest, cp) >= 0}
  IN IF after # {} THEN fs[MinOf(after)] ELSE fs[1]

\* PickCompaction, "Pick the first file that comes after
\* compact_pointer_[level]", or wrap around to the first file of the level
FirstAfterPointer(h, fs, cp) ==
  LET after == {i \in 1 .. Len(fs) : cp = NoKey \/ IcmpCompare(h[fs[i]].largest, cp) > 0}
  IN IF after # {} THEN fs[MinOf(after)] ELSE fs[1]

\* A plausible slip: the seed of a level-0 compaction is taken alone
PickLevelZeroSeedOnly(w, c) == SetupOtherInputs(w, c)

\* A plausible slip: a level has to be over its limit, not at it
SizeCompactionOverOnly(compaction_score) == compaction_score[1] > compaction_score[2]

\* current_->compaction_score_ >= 1
SizeCompaction(compaction_score) == ScoreAtLeastOne(compaction_score)

\* PickCompaction, "Files in level 0 may overlap each other, so pick up all
\* overlapping ones", then SetupOtherInputs(c)
PickLevelZero(w, c) ==
  SetupOtherInputs(w,
    IF c.level = 0
    THEN [c EXCEPT !.inputs[1] =
            GetOverlappingInputs(w.heap, w.versions[w.vs.current], 0,
                                 GetRange(w.heap, c.inputs[1]).smallest,
                                 GetRange(w.heap, c.inputs[1]).largest)]
    ELSE c)

\* PickCompaction, the size-triggered branch
PickBySize(w, ver) ==
  PickLevelZero(
    [w EXCEPT !.fault =
       FirstFault(@,
                  /\ ver.compaction_level >= 0
                  /\ ver.compaction_level < Len(ver.files)
                  /\ Len(ver.files) = Len(w.vs.compact_pointer),
                  "assert:PickCompaction")],
    MkCompaction(w.vs.current, NumLevels(ver), ver.compaction_level,
                 <<FirstAfterPointer(w.heap, ver.files[ver.compaction_level + 1],
                                     w.vs.compact_pointer[ver.compaction_level + 1])>>))

\* PickCompaction, the seek-triggered branch
PickBySeek(w, ver) ==
  PickLevelZero(w, MkCompaction(w.vs.current, NumLevels(ver), ver.file_to_compact_level,
                                <<ver.file_to_compact>>))

\* Compaction::Compaction with sublevels: one input lane per sublevel of the
\* output pool of the level, and level_ptrs_(0)
MkSublevelCompaction(v, ver, level) ==
  [input_version |-> v, level |-> level,
   inputs |-> [i \in 1 .. ver.output_pool[level + 1][2] |-> <<>>],
   grandparents |-> <<>>, compact_pointers |-> <<>>,
   grandparent_index |-> 0, seen_key |-> FALSE, overlapped_bytes |-> 0,
   level_ptrs |-> <<>>]

RECURSIVE SublevelSeed(_, _, _, _, _, _, _)
\* SetupSublevelInputs, "Pick up the table with the smallest left bound":
\* best is f (0 for NULL), its lane and whether the assertion on the second
\* table of a row held
SublevelSeed(h, ver, level, first, count, i, best) ==
  IF i >= count THEN best
  ELSE LET row == ver.files[first + i + 1]
           better == IF row = <<>> THEN FALSE
                     ELSE IF best.f = 0 THEN TRUE
                     ELSE IcmpCompare(h[row[1]].smallest, h[best.f].smallest) < 0
       IN SublevelSeed(h, ver, level, first, count, i + 1,
            IF better
            THEN [f |-> row[1], sublevel |-> i,
                  sorted |-> /\ best.sorted
                             /\ (level > 0 /\ Len(row) > 1)
                                  => IcmpCompare(h[row[2]].smallest, h[row[1]].largest) > 0]
            ELSE best)

RECURSIVE SkipCovered(_, _, _, _)
\* SetupSublevelInputs, while (next_visit[i] < files_[row].size() && ...)
SkipCovered(h, row, next_visit, right_key) ==
  IF next_visit < Len(row) /\ h[row[next_visit + 1]].largest[1] <= right_key
  THEN SkipCovered(h, row, next_visit + 1, right_key) ELSE next_visit

RECURSIVE WidenPass(_, _, _, _, _)
\* SetupSublevelInputs, one pass of the do loop over the lanes from i on
WidenPass(h, ver, row_start, i, st) ==
  IF i >= Len(st.next_visit) THEN st
  ELSE LET row == ver.files[row_start + i + 1]
           nv == SkipCovered(h, row, st.next_visit[i + 1], st.right_bound[1])
       IN WidenPass(h, ver, row_start, i + 1,
            IF nv = Len(row) THEN [st EXCEPT !.next_visit[i + 1] = nv]
            ELSE IF h[row[nv + 1]].smallest[1] <= st.right_bound[1]
            THEN [next_visit |-> [st.next_visit EXCEPT ![i + 1] = nv + 1],
                  right_bound |-> h[row[nv + 1]].largest, has_changed |-> TRUE]
            ELSE [st EXCEPT !.next_visit[i + 1] = nv])

RECURSIVE WidenRightBound(_, _, _, _)
\* SetupSublevelInputs, do { ... } while (has_changed): the right bound of
\* "the range covering all overlapping files in all sublevels of this level"
WidenRightBound(h, ver, row_start, st) ==
  LET p == WidenPass(h, ver, row_start, 0, [st EXCEPT !.has_changed = FALSE])
  IN IF p.has_changed THEN WidenRightBound(h, ver, row_start, p) ELSE p.right_bound

\* VersionSet::SetupSublevelInputs(level, c): abort3 when the output pool of
\* the level holds no sublevel
SetupSublevelInputs(w, ver, level, c) ==
  LET op == ver.output_pool[level + 1]
      ip == ver.input_pool[level + 2]
      seed == SublevelSeed(w.heap, ver, level, op[1], op[2], 0,
                           [f |-> 0, sublevel |-> -1, sorted |-> TRUE])
  IN IF op[2] = 0
     THEN [w |-> [w EXCEPT !.fault = FirstFault(@, FALSE, "abort:SetupSublevelInputs")],
           c |-> c]
     ELSE IF ~(/\ ip[2] > 0
               /\ ip[1] < Len(ver.files)
               /\ op[1] + op[2] <= Len(ver.files)
               /\ seed.f # 0
               /\ seed.sorted)
     THEN [w |-> [w EXCEPT !.fault = FirstFault(@, FALSE, "assert:SetupSublevelInputs")],
           c |-> c]
     ELSE LET left_bound == w.heap[seed.f].smallest
              right_bound ==
                IF level > 0
                THEN WidenRightBound(w.heap, ver, op[1],
                       [next_visit |-> [i \in 1 .. op[2] |->
                                          IF i = seed.sublevel + 1 THEN 1 ELSE 0],
                        right_bound |-> w.heap[seed.f].largest,
                        has_changed |-> FALSE])
                ELSE w.heap[seed.f].largest
          IN [w |-> w,
              c |-> [c EXCEPT !.inputs =
                       [i \in 1 .. op[2] |->
                          GetOverlappingInputs(w.heap, ver, op[1] + i - 1,
                                               left_bound, right_bound)]]]

\* PickCompaction with sublevels: the Compaction of level, whose constructor
\* reads output_pool_[level] and input_pool_[level + 1]
PickSublevel(w, ver, level, size_compaction) ==
  IF ~(/\ level >= 0
       /\ Len(ver.input_pool) = Len(ver.output_pool)
       /\ level + 1 < Len(ver.input_pool))
  THEN [w |-> [w EXCEPT !.fault = FirstFault(@, FALSE, "assert:PickCompaction")],
        c |-> NoCompaction]
  ELSE IF size_compaction
  THEN SetupSublevelInputs(w, ver, level, MkSublevelCompaction(w.vs.current, ver, level))
  ELSE IF ver.output_pool[level + 1][2] = 0
  THEN [w |-> [w EXCEPT !.fault = FirstFault(@, FALSE, "ub:inputs")],
        c |-> MkSublevelCompaction(w.vs.current, ver, level)]
  ELSE [w |-> w,
        c |-> [MkSublevelCompaction(w.vs.current, ver, level)
                 EXCEPT !.inputs[1] = <<ver.file_to_compact>>]]

\* VersionSet::PickCompaction(allow_seek_compaction): the compaction
\* returned (NoCompaction for NULL) and the version set it leaves
PickCompactionOf(w, ver, allow_seek_compaction) ==
  IF SizeCompaction(ver.compaction_score)
  THEN IF w.vs.enable_sublevel THEN PickSublevel(w, ver, ver.compaction_level, TRUE)
       ELSE PickBySize(w, ver)
  ELSE IF allow_seek_compaction /\ ver.file_to_compact # 0
  THEN IF w.vs.enable_sublevel THEN PickSublevel(w, ver, ver.file_to_compact_level, FALSE)
       ELSE PickBySeek(w, ver)
  ELSE [w |-> w, c |-> NoCompaction]

\* MaxFileSizeForLevel
MaxFileSizeForLevel(level) == table_file_size

\* A plausible slip: the file that reaches the limit is left out
CapInputsBelow(h, inputs, i, total) == SubSeq(inputs, 1, i - 1)

\* CompactRange, inputs.resize(i + 1) once total >= limit
CapInputsAt(h, inputs, i, total) == SubSeq(inputs, 1, i)

RECURSIVE CapInputs(_, _, _, _, _)
\* CompactRange, "Avoid compacting too much in one shot in case the range
\* is large": the loop over inputs
CapInputs(h, inputs, limit, i, total) ==
  IF i > Len(inputs) THEN inputs
  ELSE IF total + h[inputs[i]].file_size >= limit
  THEN CapInputsAt(h, inputs, i, total + h[inputs[i]].file_size)
  ELSE CapInputs(h, inputs, limit, i + 1, total + h[inputs[i]].file_size)

\* CompactRange, the inputs it hands to SetupOtherInputs
RangeInputs(h, level, inputs) ==
  IF level > 0 THEN CapInputs(h, inputs, MaxFileSizeForLevel(level), 1, 0) ELSE inputs

\* CompactRange without sublevels, from the assertion on
CompactRangeFrom(w, level, inputs) ==
  IF inputs = <<>> THEN [w |-> w, c |-> NoCompaction]
  ELSE SetupOtherInputs(w, MkCompaction(w.vs.current,
                                        NumLevels(w.versions[w.vs.current]), level,
                                        RangeInputs(w.heap, level, inputs)))

\* VersionSet::CompactRange(level, begin, end): the compaction returned
\* (NoCompaction for NULL) and the version set it leaves
CompactRangeOf(w, level, begin, end) ==
  IF w.vs.enable_sublevel
  THEN [w |-> [w EXCEPT !.fault = FirstFault(@, begin = NoKey, "assert:CompactRange")],
        c |-> NoCompaction]
  ELSE CompactRangeFrom(
         [w EXCEPT !.fault =
            FirstFault(@,
                       /\ level < Len(w.versions[w.vs.current].files)
                       /\ Len(w.versions[w.vs.current].files) = Len(w.vs.compact_pointer),
                       "assert:CompactRange")],
         level,
         GetOverlappingInputs(w.heap, w.versions[w.vs.current], level, begin, end))

\* A plausible slip: the files crossed by the first key count as well
CrossedBytesAlways(seen_key, overlapped_bytes, file_size) == overlapped_bytes + file_size

\* ShouldStopBefore, if (seen_key_) overlapped_bytes_ += file_size
CrossedBytes(seen_key, overlapped_bytes, file_size) ==
  IF seen_key THEN overlapped_bytes + file_size ELSE overlapped_bytes

RECURSIVE StopScan(_, _, _)
\* ShouldStopBefore, "Scan to find earliest grandparent file that contains
\* key": the while loop
StopScan(h, c, internal_key) ==
  IF /\ c.grandparent_index < Len(c.grandparents)
     /\ IcmpCompare(internal_key, h[c.grandparents[c.grandparent_index + 1]].largest) > 0
  THEN StopScan(h,
                [c EXCEPT !.overlapped_bytes =
                            CrossedBytes(c.seen_key, @,
                                         h[c.grandparents[c.grandparent_index + 1]].file_size),
                          !.grandparent_index = @ + 1],
                internal_key)
  ELSE c

\* ShouldStopBefore after the loop: seen_key_ = true and the test of
\* overlapped_bytes_
StopDecide(c) ==
  IF c.overlapped_bytes > MaxGrandParentOverlapBytes
  THEN [c |-> [c EXCEPT !.seen_key = TRUE, !.overlapped_bytes = 0], ret |-> TRUE]
  ELSE [c |-> [c EXCEPT !.seen_key = TRUE], ret |-> FALSE]

\* Compaction::ShouldStopBefore(internal_key): the compaction it leaves
\* and what it returns
ShouldStopBefore(h, c, should_stop_before, sublevel, internal_key) ==
  IF ~should_stop_before \/ sublevel THEN [c |-> c, ret |-> FALSE]
  ELSE StopDecide(StopScan(h, c, internal_key))

\* A plausible slip: a key equal to a file's largest key is past the file
AdvancedFarEnoughStrict(user_key, largest) == user_key < largest

\* IsBaseLevelForKey, "We've advanced far enough"
AdvancedFarEnough(user_key, largest) == user_key <= largest

RECURSIVE BaseLevelScan(_, _, _, _)
\* IsBaseLevelForKey, the loop over the files of one level from
\* level_ptrs_[lvl] on: the cursor it leaves and whether a file holds the key
BaseLevelScan(h, files, ptr, user_key) ==
  IF ptr >= Len(files) THEN [ptr |-> ptr, covered |-> FALSE]
  ELSE IF AdvancedFarEnough(user_key, h[files[ptr + 1]].largest[1])
  THEN [ptr |-> ptr, covered |-> user_key >= h[files[ptr + 1]].smallest[1]]
  ELSE BaseLevelScan(h, files, ptr + 1, user_key)

RECURSIVE BaseLevelLoop(_, _, _, _, _)
\* IsBaseLevelForKey, the loop over the levels from lvl on; oob tells that
\* level_ptrs_[lvl] was used with lvl >= level_ptrs_.size()
BaseLevelLoop(h, ver, c, lvl, user_key) ==
  IF lvl >= Len(ver.files) THEN [c |-> c, ret |-> TRUE, oob |-> FALSE]
  ELSE IF lvl + 1 > Len(c.level_ptrs) THEN [c |-> c, ret |-> TRUE, oob |-> TRUE]
  ELSE LET r == BaseLevelScan(h, ver.files[lvl + 1], c.level_ptrs[lvl + 1], user_key)
       IN IF r.covered
          THEN [c |-> [c EXCEPT !.level_ptrs[lvl + 1] = r.ptr], ret |-> FALSE,
                oob |-> FALSE]
          ELSE BaseLevelLoop(h, ver, [c EXCEPT !.level_ptrs[lvl + 1] = r.ptr],
                             lvl + 1, user_key)

\* Compaction::IsBaseLevelForKey(user_key) on the input version ver
IsBaseLevelForKey(h, ver, c, user_key) == BaseLevelLoop(h, ver, c, c.level + 2, user_key)

\* A plausible slip: the files of level + 1 are not looked at
IsTrivialMoveAnyParents(h, c, should_stop_before) ==
  /\ Len(c.inputs[1]) = 1
  /\ (~should_stop_before
        \/ TotalFileSize(h, c.grandparents) <= MaxGrandParentOverlapBytes)

\* Compaction::IsTrivialMove (non-sublevel)
IsTrivialMove(h, c, should_stop_before) ==
  /\ Len(c.inputs[1]) = 1
  /\ Len(c.inputs[2]) = 0
  /\ (~should_stop_before
        \/ TotalFileSize(h, c.grandparents) <= MaxGrandParentOverlapBytes)

\* the edit of a trivial move, as the background thread fills it in:
\* c->edit()->DeleteFile(c->level(), f->number), then AddFile(c->level() + 1,
\* f->number, f->file_size, f->smallest, f->largest), f being c->input(0, 0)
MoveEdit(h, c) ==
  MkEdit("none", c.compact_pointers, {<<c.level, h[c.inputs[1][1]].number>>},
         <<FileMeta(c.level + 1, h[c.inputs[1][1]].number, h[c.inputs[1][1]].file_size,
                    h[c.inputs[1][1]].smallest, h[c.inputs[1][1]].largest)>>,
         FALSE, 0)

\* the edits of the compactions picked on ver that are trivial moves
MoveEdits(h, cc, vsr) ==
  {[edit |-> MoveEdit(h, cc[c]), next_file_number |-> vsr.next_file_number]
     : c \in {x \in DOMAIN cc :
                /\ cc[x] # NoCompaction
                /\ cc[x].input_version = vsr.current
                /\ IsTrivialMove(h, cc[x], vsr.enable_should_stop_before)}}

---------------------------------------------------------------------------
(* Version::Get *)

\* the tables on disk, by file number: their entries in the order of the
\* internal keys; an entry is a value, a deletion or one whose internal key
\* does not parse
TableEntries(number) ==
  CASE number = 2 -> <<[key |-> <<1, 5>>, kind |-> "value", value |-> <<1, 1>>],
                       [key |-> <<2, 4>>, kind |-> "deletion", value |-> <<>>]>>
    [] number = 3 -> <<[key |-> <<1, 9>>, kind |-> "value", value |-> <<2, 2>>],
                       [key |-> <<3, 8>>, kind |-> "value", value |-> <<3>>]>>
    [] number = 4 -> <<[key |-> <<1, 3>>, kind |-> "value", value |-> <<4, 4>>],
                       [key |-> <<1, 2>>, kind |-> "deletion", value |-> <<>>]>>
    [] number = 5 -> <<[key |-> <<2, 3>>, kind |-> "bad", value |-> <<>>],
                       [key |-> <<3, 2>>, kind |-> "value", value |-> <<5, 5>>]>>
    [] number = 6 -> <<[key |-> <<1, 1>>, kind |-> "value", value |-> <<6, 6>>],
                       [key |-> <<2, 1>>, kind |-> "value", value |-> <<7, 7>>],
                       [key |-> <<3, 1>>, kind |-> "deletion", value |-> <<>>]>>
    [] OTHER -> <<>>

\* TableCache::Get(..., ikey, &saver, SaveValue): the entry handed to
\* SaveValue is the first of the table at or after ikey, if there is one
TableSeek(number, ikey) ==
  LET at == {i \in 1 .. Len(TableEntries(number)) :
               IcmpCompare(TableEntries(number)[i].key, ikey) >= 0}
  IN IF at = {} THEN <<>> ELSE <<TableEntries(number)[MinOf(at)]>>

\* Buffer::Fill(v.data(), std::min(v.size(), s->options->limit))
Fill(v, limit) == SubSeq(v, 1, IF Len(v) < limit THEN Len(v) ELSE limit)

\* A plausible slip: a deletion is not told from a value
SaveValueAsFound(saver, entry) ==
  IF entry.kind = "bad" THEN [saver EXCEPT !.state = "kCorrupt"]
  ELSE IF entry.key[1] = saver.user_key
  THEN [saver EXCEPT !.state = "kFound", !.buf = Fill(entry.value, saver.limit)]
  ELSE saver

\* SaveValue
SaveValue(saver, entry) ==
  IF entry.kind = "bad" THEN [saver EXCEPT !.state = "kCorrupt"]
  ELSE IF entry.key[1] = saver.user_key
  THEN IF entry.kind = "value"
       THEN [saver EXCEPT !.state = "kFound", !.buf = Fill(entry.value, saver.limit)]
       ELSE [saver EXCEPT !.state = "kDeleted"]
  ELSE saver

RECURSIVE FindFileLoop(_, _, _, _, _)
\* FindFile: the binary search, over 0-based indexes
FindFileLoop(h, fs, key, left, right) ==
  IF left >= right THEN right
  ELSE IF IcmpCompare(h[fs[(left + right) \div 2 + 1]].largest, key) < 0
  THEN FindFileLoop(h, fs, key, (left + right) \div 2 + 1, right)
  ELSE FindFileLoop(h, fs, key, left, (left + right) \div 2)

FindFile(h, fs, key) == FindFileLoop(h, fs, key, 0, Len(fs))

\* kMaxSequenceNumber, above every sequence number in use
kMaxSequenceNumber == 100

\* AfterFile: NULL user_key (0 here) occurs before all keys
AfterFile(h, user_key, f) == user_key # 0 /\ user_key > h[f].largest[1]

\* BeforeFile: NULL user_key (0 here) occurs after all keys
BeforeFile(h, user_key, f) == user_key # 0 /\ user_key < h[f].smallest[1]

\* SomeFileOverlapsRange
SomeFileOverlapsRange(h, disjoint_sorted_files, files, smallest_user_key, largest_user_key) ==
  IF ~disjoint_sorted_files
  THEN \E i \in 1 .. Len(files) :
         ~(AfterFile(h, smallest_user_key, files[i])
             \/ BeforeFile(h, largest_user_key, files[i]))
  ELSE LET index == IF smallest_user_key # 0
                    THEN FindFile(h, files, <<smallest_user_key, kMaxSequenceNumber>>)
                    ELSE 0
       IN IF index >= Len(files) THEN FALSE
          ELSE ~BeforeFile(h, largest_user_key, files[index + 1])

\* Version::OverlapInLevel
OverlapInLevel(h, ver, level, smallest_user_key, largest_user_key) ==
  SomeFileOverlapsRange(h, level > 0, ver.files[level + 1], smallest_user_key,
                        largest_user_key)

\* A plausible slip: a sum at the limit is too much already
TooManyBytesAtLimit(sum) == sum >= MaxGrandParentOverlapBytes

\* PickLevelForMemTableOutput, if (sum > MaxGrandParentOverlapBytes(...))
TooManyBytes(sum) == sum > MaxGrandParentOverlapBytes

RECURSIVE MemTableOutputLoop(_, _, _, _, _)
\* PickLevelForMemTableOutput, while (level < config::kMaxMemCompactLevel)
MemTableOutputLoop(h, ver, level, smallest_user_key, largest_user_key) ==
  IF level >= kMaxMemCompactLevel THEN level
  ELSE IF OverlapInLevel(h, ver, level + 1, smallest_user_key, largest_user_key)
  THEN level
  ELSE IF /\ level + 2 < Len(ver.files)
          /\ TooManyBytes(
               TotalFileSize(h, GetOverlappingInputs(h, ver, level + 2,
                                                     <<smallest_user_key, kMaxSequenceNumber>>,
                                                     <<largest_user_key, 0>>)))
  THEN level
  ELSE MemTableOutputLoop(h, ver, level + 1, smallest_user_key, largest_user_key)

\* Version::PickLevelForMemTableOutput(smallest_user_key, largest_user_key)
PickLevelForMemTableOutput(h, ver, smallest_user_key, largest_user_key) ==
  IF OverlapInLevel(h, ver, 0, smallest_user_key, largest_user_key) THEN 0
  ELSE MemTableOutputLoop(h, ver, 0, smallest_user_key, largest_user_key)

RECURSIVE NewestFirstSort(_, _)
\* std::sort(tmp.begin(), tmp.end(), NewestFirst)
NewestFirstSort(h, S) ==
  IF S = {} THEN <<>>
  ELSE LET m == CHOOSE x \in S : \A y \in S : h[x].number >= h[y].number
       IN <<m>> \o NewestFirstSort(h, S \ {m})

\* Version::Get, "Get the list of files to search in this level"
FilesToSearch(h, fs, level, k) ==
  IF level = 0
  THEN NewestFirstSort(h, {fs[i] : i \in {j \in 1 .. Len(fs) :
                                           /\ k[1] >= h[fs[j]].smallest[1]
                                           /\ k[1] <= h[fs[j]].largest[1]}})
  ELSE IF FindFile(h, fs, k) >= Len(fs) THEN <<>>
  ELSE IF k[1] < h[fs[FindFile(h, fs, k) + 1]].smallest[1] THEN <<>>
  ELSE <<fs[FindFile(h, fs, k) + 1]>>

\* Version::Get, the result of one table read: the read failed, or the
\* state the saver is left in
GetAfterRead(g, saver, failed) ==
  IF failed THEN [g EXCEPT !.returned = TRUE, !.status = "IOError"]
  ELSE IF saver.state = "kFound"
  THEN [g EXCEPT !.returned = TRUE, !.status = "OK", !.buf = saver.buf]
  ELSE IF saver.state = "kDeleted"
  THEN [g EXCEPT !.returned = TRUE, !.status = "NotFound"]
  ELSE IF saver.state = "kCorrupt"
  THEN [g EXCEPT !.returned = TRUE, !.status = "Corruption"]
  ELSE g

\* A plausible slip: the charge moves on to the file read last
ChargeLatest(g) ==
  IF g.last_file_read # 0
  THEN [g EXCEPT !.seek_file = g.last_file_read,
                 !.seek_file_level = g.last_file_read_level]
  ELSE g

\* Version::Get, "We have had more than one seek for this read.  Charge the
\* 1st file."
ChargeFirst(g) ==
  IF g.last_file_read # 0 /\ g.seek_file = 0
  THEN [g EXCEPT !.seek_file = g.last_file_read,
                 !.seek_file_level = g.last_file_read_level]
  ELSE g

\* Version::Get, one turn of the loop over the files of a level: the
\* first file read is charged once a second one is read
GetRead(h, g, f, level, k, limit, fail) ==
  GetAfterRead([ChargeFirst(g) EXCEPT !.last_file_read = h[f].number,
                                      !.last_file_read_level = level,
                                      !.read = Append(@, h[f].number)],
               IF TableSeek(h[f].number, k) = <<>>
               THEN [state |-> "kNotFound", user_key |-> k[1], limit |-> limit, buf |-> <<>>]
               ELSE SaveValue([state |-> "kNotFound", user_key |-> k[1], limit |-> limit,
                               buf |-> <<>>],
                              TableSeek(h[f].number, k)[1]),
               h[f].number = fail)

RECURSIVE GetFiles(_, _, _, _, _, _, _, _)
GetFiles(h, g, files, i, level, k, limit, fail) ==
  IF g.returned \/ i > Len(files) THEN g
  ELSE GetFiles(h, GetRead(h, g, files[i], level, k, limit, fail), files, i + 1, level,
                k, limit, fail)

RECURSIVE GetLevels(_, _, _, _, _, _, _)
GetLevels(h, g, ver, level, k, limit, fail) ==
  IF g.returned THEN g
  ELSE IF level >= Len(ver.files) THEN [g EXCEPT !.status = "NotFound"]
  ELSE GetLevels(h, GetFiles(h, g, FilesToSearch(h, ver.files[level + 1], level, k), 1,
                             level, k, limit, fail),
                 ver, level + 1, k, limit, fail)

\* Version::Get(options, k, buf, s, stats): the status, the buffer, the
\* tables read in order and the file to charge; the read of table `fail`
\* (if it comes to it) fails
VersionGet(h, ver, k, limit, fail) ==
  GetLevels(h, [returned |-> FALSE, status |-> "OK", buf |-> <<>>, read |-> <<>>,
                last_file_read |-> 0, last_file_read_level |-> -1,
                seek_file |-> 0, seek_file_level |-> -1],
            ver, 0, k, limit, fail)

---------------------------------------------------------------------------
(* The callers: the edits they submit *)

\* the key ranges of new tables: a low one, a high one, one that spans both
KeyRanges == {<<<<1, 2>>, <<1, 1>>>>, <<<<2, 2>>, <<2, 1>>>>, <<<<1, 2>>, <<2, 1>>>>}

\* the key range [s, l] shares no internal key with file f
Disjoint(h, f, s, l) ==
  IcmpCompare(l, h[f].smallest) < 0 \/ IcmpCompare(h[f].largest, s) < 0

\* a new table with range [s, l] may enter level lv of ver once the files
\* numbered in gone have left it: levels above 0 hold disjoint ranges
FitsLevel(h, ver, lv, s, l, gone) ==
  \/ lv = 0
  \/ lv + 1 > Len(ver.files)
  \/ \A i \in 1 .. Len(ver.files[lv + 1]) :
       \/ h[ver.files[lv + 1][i]].number \in gone
       \/ Disjoint(h, ver.files[lv + 1][i], s, l)

\* the levels a flushed memtable is placed in
FlushLevels == {0, 1}

\* VersionSet::NewFileNumber is next_file_number_++: an edit that names new
\* files comes with the counter advanced past them
\* a memtable flush: a new log number, a new table in the level picked
FlushEdits(h, ver, vsr) ==
  {[edit |-> MkEdit("none", <<>>, {},
                    <<FileMeta(lv, vsr.next_file_number + 1, sz, r[1], r[2])>>,
                    TRUE, vsr.next_file_number),
    next_file_number |-> vsr.next_file_number + 2]
     : <<lv, sz, r>> \in {x \in FlushLevels \X FileSizes \X KeyRanges :
                            FitsLevel(h, ver, x[1], x[3][1], x[3][2], {})}}

LevelFiles(ver) ==
  {<<lv, i>> \in (0 .. Len(ver.files) - 1) \X ObjIds : i <= Len(ver.files[lv + 1])}

\* a compaction of one file of a level into a new table of the next level
CompactEdits(h, ver, vsr) ==
  {[edit |-> MkEdit("none", <<>>, {<<x[1][1], h[ver.files[x[1][1] + 1][x[1][2]]].number>>},
                    <<FileMeta(x[1][1] + 1, vsr.next_file_number, x[2], x[3][1], x[3][2])>>,
                    FALSE, 0),
    next_file_number |-> vsr.next_file_number + 1]
     : x \in {y \in LevelFiles(ver) \X FileSizes \X KeyRanges :
                /\ y[1][1] + 1 \in EditLevels
                /\ FitsLevel(h, ver, y[1][1] + 1, y[3][1], y[3][2], {})}}

\* a compaction that leaves no output, and a trivial move to the next level
DropAndMoveEdits(h, ver, vsr) ==
  {[edit |-> MkEdit("none", <<>>, {<<x[1], h[ver.files[x[1] + 1][x[2]]].number>>}, <<>>,
                    FALSE, 0),
    next_file_number |-> vsr.next_file_number] : x \in LevelFiles(ver)}
  \cup
  {[edit |-> MkEdit("none", <<>>, {<<x[1], h[ver.files[x[1] + 1][x[2]]].number>>},
                    <<FileMeta(x[1] + 1, h[ver.files[x[1] + 1][x[2]]].number,
                               h[ver.files[x[1] + 1][x[2]]].file_size,
                               h[ver.files[x[1] + 1][x[2]]].smallest,
                               h[ver.files[x[1] + 1][x[2]]].largest)>>,
                    FALSE, 0),
    next_file_number |-> vsr.next_file_number]
     : x \in {y \in LevelFiles(ver) :
                /\ y[1] + 1 \in EditLevels
                /\ FitsLevel(h, ver, y[1] + 1, h[ver.files[y[1] + 1][y[2]]].smallest,
                             h[ver.files[y[1] + 1][y[2]]].largest, {})}}

\* the valid edits against the current version, each with the value
\* NewFileNumber left in next_file_number_
CallerEdits(h, ver, vsr) ==
  FlushEdits(h, ver, vsr) \cup CompactEdits(h, ver, vsr) \cup DropAndMoveEdits(h, ver, vsr)

\* the sizes of the tables written when sublevels are enabled
SublevelFileSizes == {table_file_size \div 2, table_file_size}

\* the file objects of the sublevels first .. first + count - 1 of ver
PoolFiles(ver, first, count) ==
  UNION {{ver.files[row + 1][i] : i \in 1 .. Len(ver.files[row + 1])}
           : row \in first .. first + count - 1}

\* the sublevel that holds the file object f
RowOf(ver, f) ==
  CHOOSE row \in 0 .. Len(ver.files) - 1 :
    \E i \in 1 .. Len(ver.files[row + 1]) : ver.files[row + 1][i] = f

\* the key range that covers the files S
LeastKey(h, S) ==
  h[CHOOSE f \in S : \A g \in S : IcmpCompare(h[f].smallest, h[g].smallest) <= 0].smallest
GreatestKey(h, S) ==
  h[CHOOSE f \in S : \A g \in S : IcmpCompare(h[f].largest, h[g].largest) >= 0].largest

\* the inputs of a compaction of a level: one file of its output pool, or
\* every file of it
SublevelInputs(ver, level) ==
  LET S == PoolFiles(ver, ver.output_pool[level + 1][1], ver.output_pool[level + 1][2])
  IN {{f} : f \in S} \cup (IF S = {} THEN {} ELSE {S})

\* a memtable flush with sublevels enabled: a new table in sublevel 0
SublevelFlushEdits(h, ver, vsr) ==
  {[edit |-> MkEdit("none", <<>>, {},
                    <<FileMeta(0, vsr.next_file_number + 1, sz, r[1], r[2])>>,
                    TRUE, vsr.next_file_number),
    next_file_number |-> vsr.next_file_number + 2]
     : <<sz, r>> \in SublevelFileSizes \X KeyRanges}

\* a compaction of a level with sublevels enabled: the inputs leave the
\* sublevels of the output pool (Compaction::AddInputDeletions), the output
\* table, if any, joins the top sublevel of the input pool of the next level
\* (output_sublevel_) and covers the keys of the inputs
SublevelCompactEdits(h, ver, vsr) ==
  {[edit |-> MkEdit("none", <<>>, {<<RowOf(ver, f), h[f].number>> : f \in x[2]},
                    IF x[3] = 0 THEN <<>>
                    ELSE <<FileMeta(ver.input_pool[x[1] + 2][1], vsr.next_file_number, x[3],
                                    LeastKey(h, x[2]), GreatestKey(h, x[2]))>>,
                    FALSE, 0),
    next_file_number |-> vsr.next_file_number + (IF x[3] = 0 THEN 0 ELSE 1)]
     : x \in {y \in (0 .. Len(ver.input_pool) - 2) \X (SUBSET ObjIds)
                      \X ({0} \cup SublevelFileSizes) :
                /\ y[2] \in SublevelInputs(ver, y[1])
                /\ ver.input_pool[y[1] + 2][1] < Len(ver.files)
                /\ FitsLevel(h, ver, ver.input_pool[y[1] + 2][1],
                             LeastKey(h, y[2]), GreatestKey(h, y[2]), {})}}

\* the valid edits against the current version when sublevels are enabled
SublevelEdits(h, ver, vsr) ==
  SublevelFlushEdits(h, ver, vsr) \cup SublevelCompactEdits(h, ver, vsr)

\* the size of the tables of a database of large tables
LargeFileSize == MaxInt \div 2 + 1

\* the callers of a database of large tables, sublevels enabled: a memtable
\* flush gives a table of LargeFileSize in sublevel 0; a compaction of level
\* 0 takes every table of it and gives one table or two (no more than it
\* takes), of LargeFileSize each and of one user key each, to the top
\* sublevel of the input pool of level 1
LargeEdits(h, ver, vsr) ==
  LET row == ver.input_pool[2][1]
      S == {ver.files[1][i] : i \in 1 .. Len(ver.files[1])}
      one == <<<<1, 2>>, <<1, 1>>>>
      two == <<<<2, 2>>, <<2, 1>>>>
      outputs == {o \in {<<one>>, <<two>>, <<one, two>>} :
                    /\ S # {}
                    /\ Len(o) <= Cardinality(S)
                    /\ row < Len(ver.files)
                    /\ \A k \in 1 .. Len(o) :
                         /\ IcmpCompare(LeastKey(h, S), o[k][1]) <= 0
                         /\ IcmpCompare(o[k][2], GreatestKey(h, S)) <= 0
                         /\ FitsLevel(h, ver, row, o[k][1], o[k][2], {})}
  IN {[edit |-> MkEdit("none", <<>>, {},
                       <<FileMeta(0, vsr.next_file_number + 1, LargeFileSize, r[1], r[2])>>,
                       TRUE, vsr.next_file_number),
       next_file_number |-> vsr.next_file_number + 2] : r \in KeyRanges}
     \cup
     {[edit |-> MkEdit("none", <<>>, {<<0, h[f].number>> : f \in S},
                       [k \in 1 .. Len(o) |->
                          FileMeta(row, vsr.next_file_number + k - 1, LargeFileSize,
                                   o[k][1], o[k][2])],
                       FALSE, 0),
       next_file_number |-> vsr.next_file_number + Len(o)] : o \in outputs}

\* the edits the callers hand over under the option enable_sublevel
EditsFor(h, ver, vsr) ==
  IF vsr.enable_sublevel THEN SublevelEdits(h, ver, vsr) ELSE CallerEdits(h, ver, vsr)

\* the edits a call may be entered with: in "move" mode the background
\* thread moves the file of a compaction that is a trivial move
SubmittedEdits ==
  IF callers = "move" THEN MoveEdits(heap, comp, vs)
  ELSE IF callers = "large" THEN LargeEdits(heap, versions[vs.current], vs)
  ELSE EditsFor(heap, versions[vs.current], vs)

\* the callers' discipline: in "serial" mode edits are applied by one thread,
\* one at a time; in "free" mode holding M is all a caller does
CallerMayApply(t) ==
  callers # "free" => t = ApplyThread /\ \A u \in Threads : pc[u] = "idle"

\* the number of applies of a run; fewer where the reads are followed
CallLimit ==
  IF callers \in {"seek", "move"} THEN MaxSeekCalls
  ELSE IF callers \in {"sublevel", "large"} THEN MaxSublevelCalls ELSE MaxCalls

\* what a call can see of the version set when it starts and when it returns
Snapshot(vv, vsr) ==
  [current |-> vsr.current, files |-> vv[vsr.current].files,
   log_number |-> vsr.log_number, prev_log_number |-> vsr.prev_log_number,
   next_file_number |-> vsr.next_file_number, last_sequence |-> vsr.last_sequence]

---------------------------------------------------------------------------
(* VersionSet::LogAndApply and VersionSet::ForeighApply *)

\* A plausible slip: the record is put before the records written so far
AddRecordFront(recs, rec) == <<rec>> \o recs

\* log::Writer::AddRecord as the descriptor sees it: the record follows the
\* records written so far
AddRecord(recs, rec) == Append(recs, rec)

\* ~Builder at the end of the block: the world with v in it
BuildVersionDone(w, v, ap, sv) ==
  WorldOf(BuilderDelete(State(sv.heap,
                              [w.versions EXCEPT ![v] = [VersionFor(w.vs.enable_sublevel)
                                                           EXCEPT !.files = sv.files]],
                              w.ring),
                        ap.b),
          [w.vs EXCEPT !.compact_pointer = ap.cp], sv.fault)

\* builder.SaveTo(v)
BuildVersionSave(w, v, ap) ==
  [w |-> BuildVersionDone(w, v, ap,
                          BuilderSaveTo(ap.heap, w.versions, ap.b,
                                        VersionFor(w.vs.enable_sublevel).files, w.fault)),
   v |-> v]

\* builder.Apply(edit), w being the world once the builder holds the base
BuildVersionApply(w, e, b) ==
  BuildVersionSave(w, MinOf(FreeVers(w.versions)),
                   BuilderApply(w.heap, w.vs.compact_pointer, b, e))

\* Builder builder(this, current_)
BuildVersionNew(w, e, bn) ==
  BuildVersionApply([w EXCEPT !.versions = bn.st.versions], e, bn.b)

\* Version* v = new Version(this); { Builder builder(this, current_);
\* builder.Apply(edit); builder.SaveTo(v); }
BuildVersionBlock(w, e) ==
  BuildVersionNew(w, e, BuilderNew(State(w.heap, w.versions, w.ring), w.vs.current,
                                   w.vs.enable_sublevel))

\* if (options_->enable_sublevel) ReorganizeSublevels(v, edit), r being its
\* result
BuildVersionReorganized(b, r) ==
  [b EXCEPT !.w.versions[b.v] = r.version, !.w.fault = r.fault]

\* the new version of LogAndApply and of ForeighApply: built from current_
\* and the edit, then laid out anew when sublevels are enabled
BuildVersionOf(b, e) ==
  IF b.w.vs.enable_sublevel
  THEN BuildVersionReorganized(b, ReorganizeSublevels(b.w.heap,
                                                      b.w.versions[b.w.vs.current],
                                                      b.w.versions[b.v], e, b.w.fault))
  ELSE b

BuildVersion(w, e) == BuildVersionOf(BuildVersionBlock(w, e), e)

\* Finalize(v)
FinalizeBuilt(b, e) ==
  [w |-> [b.w EXCEPT !.versions[b.v] = Finalize(b.w.heap, @, b.w.vs.enable_sublevel)],
   v |-> b.v, edit |-> e]

\* the edit with the counters LogAndApply gives it
LogAndApplyEdit(vsr, e0) ==
  [e0 EXCEPT
     !.has_log_number = TRUE,
     !.log_number = IF e0.has_log_number THEN @ ELSE vsr.log_number,
     !.has_prev_log_number = TRUE,
     !.prev_log_number = IF e0.has_prev_log_number THEN @ ELSE vsr.prev_log_number,
     !.has_next_file_number = TRUE,
     !.next_file_number = vsr.next_file_number,
     !.has_last_sequence = TRUE,
     !.last_sequence = vsr.last_sequence]

\* LogAndApply up to Finalize(v): the counters the edit is given, the new
\* version built from current_ and finalized
LogAndApplyPrepare(w, e0) ==
  FinalizeBuilt(
    BuildVersion([w EXCEPT !.fault =
                    FirstFault(w.fault,
                               e0.has_log_number =>
                                 /\ e0.log_number >= w.vs.log_number
                                 /\ e0.log_number < w.vs.next_file_number,
                               "assert:LogAndApply")],
                 LogAndApplyEdit(w.vs, e0)),
    LogAndApplyEdit(w.vs, e0))

\* LogAndApply from "Initialize new descriptor log file if necessary" to
\* mu->Unlock(), p being the edit and the version prepared
LogAndApplyDescriptor(t, created, written, pre, p) ==
  LET fresh == vs.descriptor_log = 0
      n == vs.manifest_file_number
      f2 == FirstFault(p.w.fault, fresh => n # 0, "assert:LogAndApply")
      f3 == FirstFault(f2,
                       fresh /\ created =>
                         \/ p.w.vs.enable_sublevel
                         \/ Len(p.w.vs.compact_pointer)
                              = Len(p.w.versions[p.w.vs.current].files),
                       "assert:WriteSnapshot")
      s == IF fresh /\ ~(created /\ written) THEN "IOError" ELSE "OK"
  IN /\ SetWorld([p.w EXCEPT !.fault = f3,
                             !.vs.descriptor_log = IF fresh /\ created THEN n ELSE @])
     /\ disk' = IF fresh /\ created
                THEN [disk EXCEPT ![n] =
                        DiskFile(IF written
                                 THEN AddRecord(<<>>,
                                        EditRecord(0, SnapshotEdit(p.w.heap, p.w.versions,
                                                                   p.w.vs)))
                                 ELSE <<>>)]
                ELSE disk
     /\ durable' = IF fresh /\ created THEN [durable EXCEPT ![n] = 0] ELSE durable
     /\ loc' = [loc EXCEPT ![t] =
                  [call |-> hist.calls + 1, edit |-> p.edit, v |-> p.v, s |-> s,
                   new_manifest |-> fresh, pre |-> pre,
                   compact_pointer |-> vs.compact_pointer]]
     /\ pc' = [pc EXCEPT ![t] = IF s = "OK" THEN "write" ELSE "relock"]
     /\ hist' = [hist EXCEPT !.calls = @ + 1,
                              !.overlapped = @ \/ \E u \in Threads : pc[u] # "idle"]

\* the version set as the caller leaves it for the call: NewFileNumber has
\* handed out the numbers the edit names
CallerWorld(c) ==
  World(heap, versions, ring, [vs EXCEPT !.next_file_number = c.next_file_number], fault)

\* LogAndApply from its entry to mu->Unlock(): the caller holds M; the
\* descriptor is created with a snapshot of current_ when there is none
LogAndApplyBegin(t) ==
  /\ phase = "open"
  /\ pc[t] = "idle"
  /\ mu = NoThread
  /\ CallerMayApply(t)
  /\ hist.calls < CallLimit
  /\ FreeVers(versions) # {}
  /\ \E c \in SubmittedEdits, created \in BOOLEAN, written \in BOOLEAN :
       /\ Cardinality(FreeObjs(heap)) >= Len(c.edit.new_files)
       /\ vs.descriptor_log # 0 => created /\ written
       /\ created \/ ~written
       /\ LogAndApplyDescriptor(t, created, written,
                                Snapshot(versions, CallerWorld(c).vs),
                                LogAndApplyPrepare(CallerWorld(c), c.edit))
  /\ UNCHANGED <<current_file, mu, held, comp, phase, callers>>

\* descriptor_log_->AddRecord(record), M released.  A failed write leaves a
\* torn record behind.  The writer read through descriptor_log_ may be one
\* that another call has deleted meanwhile: anything can come of that
LogAndApplyWrite(t) ==
  /\ pc[t] = "write"
  /\ \E ok \in BOOLEAN :
       /\ LET d == vs.descriptor_log
              gone == d = 0
          IN /\ disk' = IF gone THEN disk
                        ELSE IF ok
                        THEN [disk EXCEPT ![d].recs =
                                AddRecord(@, EditRecord(loc[t].call, loc[t].edit))]
                        ELSE [disk EXCEPT ![d].recs = AddRecord(@, CorruptRecord)]
             /\ fault' = FirstFault(fault, ~gone, "ub:descriptor_log")
             /\ loc' = [loc EXCEPT ![t].s = IF ok THEN "OK" ELSE "IOError"]
             /\ pc' = [pc EXCEPT ![t] = IF ok THEN "sync" ELSE "relock"]
  /\ UNCHANGED <<heap, versions, ring, vs, durable, current_file, mu, held, comp,
                 phase, callers, hist>>

\* A plausible slip: the new descriptor is installed without the sync
LogAndApplySyncSkipped(t) ==
  /\ pc[t] = "sync"
  /\ loc' = [loc EXCEPT ![t].s = "OK"]
  /\ pc' = [pc EXCEPT ![t] = IF loc[t].new_manifest THEN "setcurrent" ELSE "relock"]
  /\ UNCHANGED <<heap, versions, ring, vs, disk, durable, current_file, mu, held, comp,
                 phase, fault, callers, hist>>

\* descriptor_file_->Sync(), M released: what was written becomes durable
LogAndApplySync(t) ==
  /\ pc[t] = "sync"
  /\ \E ok \in BOOLEAN :
       LET d == vs.descriptor_log
           gone == d = 0
       IN /\ durable' = IF ok /\ ~gone THEN [durable EXCEPT ![d] = Len(disk[d].recs)]
                        ELSE durable
          /\ fault' = FirstFault(fault, ~gone, "ub:descriptor_log")
          /\ loc' = [loc EXCEPT ![t].s = IF ok THEN "OK" ELSE "IOError"]
          /\ pc' = [pc EXCEPT ![t] = IF ok /\ loc[t].new_manifest THEN "setcurrent"
                                     ELSE "relock"]
  /\ UNCHANGED <<heap, versions, ring, vs, disk, current_file, mu, held, comp,
                 phase, callers, hist>>

\* the new descriptor is installed, M released: SetCurrentFile, or with
\* rotating_manifest the other descriptor and CURRENT are deleted
LogAndApplySetCurrent(t) ==
  /\ pc[t] = "setcurrent"
  /\ \E ok \in BOOLEAN :
       /\ vs.rotating_manifest => ok
       /\ LET n == vs.manifest_file_number
          IN /\ current_file' = IF vs.rotating_manifest THEN 0
                                ELSE IF ok THEN n ELSE current_file
             /\ disk' = IF vs.rotating_manifest /\ 3 - n \in DiskNums
                        THEN [disk EXCEPT ![3 - n] = NoDisk] ELSE disk
             /\ fault' = FirstFault(fault, vs.rotating_manifest => n < 3,
                                    "assert:LogAndApply")
             /\ loc' = [loc EXCEPT ![t].s = IF ok THEN "OK" ELSE "IOError"]
  /\ pc' = [pc EXCEPT ![t] = "relock"]
  /\ UNCHANGED <<heap, versions, ring, vs, durable, mu, held, comp, phase, callers, hist>>

\* A plausible slip: the call goes on without M
LogAndApplyRelockNoLock(t) ==
  /\ pc[t] = "relock"
  /\ mu' = mu
  /\ pc' = [pc EXCEPT ![t] = "install"]
  /\ UNCHANGED <<heap, versions, ring, vs, disk, durable, current_file, loc, held, comp,
                 phase, fault, callers, hist>>

\* mu->Lock()
LogAndApplyRelock(t) ==
  /\ pc[t] = "relock"
  /\ mu = NoThread
  /\ mu' = t
  /\ pc' = [pc EXCEPT ![t] = "install"]
  /\ UNCHANGED <<heap, versions, ring, vs, disk, durable, current_file, loc, held, comp,
                 phase, fault, callers, hist>>

\* A plausible slip: the new version is installed whatever the status
InstallStatusIgnored(s) == TRUE

\* if (s.ok()) after mu->Lock()
InstallStatus(s) == s = "OK"

\* A plausible slip: the edit's log number lands in the wrong counter
LogAndApplyCommitCrossed(w, l) ==
  [AppendVersion(w, l.v) EXCEPT
     !.vs.next_file_number = l.edit.log_number,
     !.vs.prev_log_number = l.edit.prev_log_number]

\* the branch taken when s.ok(): AppendVersion(v) and the log numbers
LogAndApplyCommit(w, l) ==
  [AppendVersion(w, l.v) EXCEPT
     !.vs.log_number = l.edit.log_number,
     !.vs.prev_log_number = l.edit.prev_log_number]

\* A plausible slip: the log numbers of the edit are kept on failure
LogAndApplyAbandonKeepsNumbers(w, l) ==
  LET st == VersionDelete(State(w.heap, w.versions, w.ring), l.v)
  IN World(st.heap, st.versions, st.ring,
           [w.vs EXCEPT !.descriptor_log = IF l.new_manifest THEN 0 ELSE @,
                        !.log_number = l.edit.log_number,
                        !.prev_log_number = l.edit.prev_log_number],
           w.fault)

\* the branch taken otherwise: delete v, and descriptor_log_ with the
\* descriptor this call created
LogAndApplyAbandon(w, l) ==
  LET st == VersionDelete(State(w.heap, w.versions, w.ring), l.v)
  IN World(st.heap, st.versions, st.ring,
           [w.vs EXCEPT !.descriptor_log = IF l.new_manifest THEN 0 ELSE @],
           w.fault)

\* LogAndApply from "Install the new version" to its return: on success
\* AppendVersion and the log numbers; otherwise v is deleted, and with it a
\* descriptor this call created
LogAndApplyInstall(t) ==
  /\ pc[t] = "install"
  /\ LET l == loc[t]
         ok == InstallStatus(l.s)
         drop == ~ok /\ l.new_manifest
         n == vs.manifest_file_number
     IN /\ SetWorld(IF ok
                    THEN LogAndApplyCommit(World(heap, versions, ring, vs, fault), l)
                    ELSE LogAndApplyAbandon(World(heap, versions, ring, vs, fault), l))
        /\ disk' = IF drop THEN [disk EXCEPT ![n] = NoDisk] ELSE disk
        /\ durable' = IF drop THEN [durable EXCEPT ![n] = 0] ELSE durable
        /\ hist' = [hist EXCEPT
                      !.installed = IF ok THEN Append(@, l.edit) ELSE @,
                      !.order = IF ok THEN Append(@, l.call) ELSE @,
                      !.producer = IF ok THEN l.call ELSE @,
                      !.ret = Append(@, [call |-> l.call, status |-> l.s,
                                         next_file_number |-> vs.next_file_number])]
  /\ mu' = NoThread
  /\ pc' = [pc EXCEPT ![t] = "idle"]
  /\ loc' = [loc EXCEPT ![t] = IdleLoc]
  /\ UNCHANGED <<current_file, held, comp, phase, callers>>

\* the edits a peer hands over: every counter is set
ForeignEdits(h, ver, vsr) ==
  {[c.edit EXCEPT
      !.has_log_number = TRUE,
      !.log_number = IF c.edit.has_log_number THEN @ ELSE vsr.log_number,
      !.has_next_file_number = TRUE, !.next_file_number = c.next_file_number,
      !.has_last_sequence = TRUE, !.last_sequence = vsr.last_sequence + 1]
     : c \in EditsFor(h, ver, vsr)}

\* ForeighApply from AppendVersion(v) to its return
ForeignInstall(b, log_number, prev_log_number, next_file_number, last_sequence) ==
  [AppendVersion(b.w, b.v) EXCEPT
     !.vs.log_number = log_number,
     !.vs.prev_log_number = prev_log_number,
     !.vs.next_file_number = next_file_number,
     !.vs.last_sequence = last_sequence]

\* VersionSet::ForeighApply, the caller holding M throughout
ForeignApply ==
  /\ phase = "open"
  /\ mu = NoThread
  /\ CallerMayApply(ApplyThread)
  /\ hist.calls < CallLimit
  /\ FreeVers(versions) # {}
  /\ \E e \in ForeignEdits(heap, versions[vs.current], vs) :
       /\ Cardinality(FreeObjs(heap)) >= Len(e.new_files)
       /\ LET log_number == IF e.has_log_number THEN e.log_number ELSE vs.log_number
              prev_log_number == IF e.has_prev_log_number THEN e.prev_log_number
                                 ELSE vs.prev_log_number
              next_file_number == IF e.has_next_file_number THEN e.next_file_number
                                  ELSE vs.next_file_number
              last_sequence == IF e.has_last_sequence THEN e.last_sequence
                               ELSE vs.last_sequence
              f1 == FirstFault(fault,
                               /\ vs.log_number <= log_number
                               /\ vs.prev_log_number <= prev_log_number
                               /\ vs.next_file_number <= next_file_number
                               /\ vs.last_sequence <= last_sequence
                               /\ log_number < next_file_number,
                               "assert:ForeighApply")
          IN /\ SetWorld(ForeignInstall(
                           BuildVersion(World(heap, versions, ring, vs, f1), e),
                           log_number, prev_log_number, next_file_number, last_sequence))
             /\ hist' = [hist EXCEPT !.calls = @ + 1, !.installed = Append(@, e),
                                      !.producer = 0]
  /\ UNCHANGED <<disk, durable, current_file, mu, pc, loc, held, comp, phase, callers>>

---------------------------------------------------------------------------
(* Readers and compactions: references to versions, taken and dropped      *)
(* under M                                                                 *)

\* a reader pins the current version: current()->Ref()
Pin(r) ==
  /\ phase = "open"
  /\ mu = NoThread
  /\ held[r] = 0
  /\ LET st == VersionRef(State(heap, versions, ring), vs.current)
     IN versions' = st.versions
  /\ held' = [held EXCEPT ![r] = vs.current]
  /\ hist' = [hist EXCEPT !.pinned[r] = Len(hist.installed)]
  /\ UNCHANGED <<heap, ring, vs, disk, durable, current_file, mu, pc, loc, comp, phase,
                 fault, callers>>

\* the reader is done: Unref() on the version it pinned
Unpin(r) ==
  /\ mu = NoThread
  /\ held[r] # 0
  /\ LET st == VersionUnref(State(heap, versions, ring), held[r])
     IN /\ heap' = st.heap
        /\ versions' = st.versions
        /\ ring' = st.ring
  /\ held' = [held EXCEPT ![r] = 0]
  /\ hist' = [hist EXCEPT !.pinned[r] = 0]
  /\ UNCHANGED <<vs, disk, durable, current_file, mu, pc, loc, comp, phase, fault,
                 callers>>

\* A plausible slip: the file is due for compaction at its first seek
SeeksUsedUpAtOnce(allowed_seeks) == TRUE

\* A plausible slip: the file is due only once its budget is overdrawn
SeeksUsedUpBelowZero(allowed_seeks) == allowed_seeks < 0

\* f->allowed_seeks <= 0
SeeksUsedUp(allowed_seeks) == allowed_seeks <= 0

\* Version::UpdateStats on the version a read pinned, with M held; the reads
\* followed keep missing in one table (stats.seek_file); hist.updated is the
\* value returned
UpdateStats(r) ==
  /\ mu = NoThread
  /\ held[r] # 0
  /\ hist.charges < MaxCharges
  /\ \E lv \in 1 .. Len(versions[held[r]].files), i \in ObjIds :
       /\ i <= Len(versions[held[r]].files[lv])
       /\ LET f == versions[held[r]].files[lv][i]
              hit == /\ SeeksUsedUp(heap[f].allowed_seeks - 1)
                     /\ versions[held[r]].file_to_compact = 0
          IN /\ hist.seek \in {0, heap[f].number}
             /\ heap' = [heap EXCEPT ![f].allowed_seeks = @ - 1]
             /\ versions' = IF hit
                             THEN [versions EXCEPT ![held[r]].file_to_compact = f,
                                                   ![held[r]].file_to_compact_level = lv - 1]
                             ELSE versions
             /\ hist' = [hist EXCEPT !.charges = @ + 1, !.seek = heap[f].number,
                                      !.updated = hit]
  /\ UNCHANGED <<ring, vs, disk, durable, current_file, mu, pc, loc, held, comp, phase,
                 fault, callers>>

CompactionLevels == {0}

\* Compaction::Compaction: input_version_(vset->current()), Ref()
NewCompaction(c) ==
  /\ phase = "open"
  /\ mu = NoThread
  /\ comp[c] = NoCompaction
  /\ \E lv \in CompactionLevels :
       comp' = [comp EXCEPT ![c] = [input_version |-> vs.current, level |-> lv]]
  /\ LET st == VersionRef(State(heap, versions, ring), vs.current)
     IN versions' = st.versions
  /\ UNCHANGED <<heap, ring, vs, disk, durable, current_file, mu, pc, loc, held, phase,
                 fault, callers, hist>>

\* Compaction::ReleaseInputs
ReleaseInputs(c) ==
  /\ mu = NoThread
  /\ comp[c] # NoCompaction
  /\ comp[c].input_version # 0
  /\ LET st == VersionUnref(State(heap, versions, ring), comp[c].input_version)
     IN /\ heap' = st.heap
        /\ versions' = st.versions
        /\ ring' = st.ring
  /\ comp' = [comp EXCEPT ![c].input_version = 0]
  /\ UNCHANGED <<vs, disk, durable, current_file, mu, pc, loc, held, phase, fault,
                 callers, hist>>

\* Compaction::~Compaction
DeleteCompaction(c) ==
  /\ mu = NoThread
  /\ comp[c] # NoCompaction
  /\ LET st == IF comp[c].input_version # 0
               THEN VersionUnref(State(heap, versions, ring), comp[c].input_version)
               ELSE State(heap, versions, ring)
     IN /\ heap' = st.heap
        /\ versions' = st.versions
        /\ ring' = st.ring
  /\ comp' = [comp EXCEPT ![c] = NoCompaction]
  /\ UNCHANGED <<vs, disk, durable, current_file, mu, pc, loc, held, phase, fault,
                 callers, hist>>

\* VersionSet::AddLiveFiles: the numbers of the files of every version of
\* the ring
AddLiveFiles(h, vv, r) ==
  {h[f].number : f \in UNION {{Flatten(vv[r[i]].files, 1)[k]
                                 : k \in 1 .. Len(Flatten(vv[r[i]].files, 1))}
                              : i \in 1 .. Len(r)}}

---------------------------------------------------------------------------
Next ==
  \/ Recover
  \/ \E t \in Threads : LogAndApplyBegin(t)
  \/ \E t \in Threads : LogAndApplyWrite(t)
  \/ \E t \in Threads : LogAndApplySync(t)
  \/ \E t \in Threads : LogAndApplySetCurrent(t)
  \/ \E t \in Threads : LogAndApplyRelock(t)
  \/ \E t \in Threads : LogAndApplyInstall(t)
  \/ ForeignApply
  \/ \E r \in Readers : Pin(r)
  \/ \E r \in Readers : Unpin(r)
  \/ \E c \in CompSlots : NewCompaction(c)
  \/ \E c \in CompSlots : ReleaseInputs(c)
  \/ \E c \in CompSlots : DeleteCompaction(c)

Spec == Init /\ [][Next]_vars

\* callers that only hold M when they enter LogAndApply
NextFree ==
  \/ Recover
  \/ \E t \in Threads : LogAndApplyBegin(t)
  \/ \E t \in Threads : LogAndApplyWrite(t)
  \/ \E t \in Threads : LogAndApplySync(t)
  \/ \E t \in Threads : LogAndApplySetCurrent(t)
  \/ \E t \in Threads : LogAndApplyRelock(t)
  \/ \E t \in Threads : LogAndApplyInstall(t)

SpecFree == InitFree /\ [][NextFree]_vars

\* reads that charge their seeks while edits are applied
NextSeek ==
  \/ Recover
  \/ \E t \in Threads : LogAndApplyBegin(t)
  \/ \E t \in Threads : LogAndApplyWrite(t)
  \/ \E t \in Threads : LogAndApplySync(t)
  \/ \E t \in Threads : LogAndApplySetCurrent(t)
  \/ \E t \in Threads : LogAndApplyRelock(t)
  \/ \E t \in Threads : LogAndApplyInstall(t)
  \/ \E r \in Readers : Pin(r)
  \/ \E r \in Readers : Unpin(r)
  \/ \E r \in Readers : UpdateStats(r)

SpecSeek == InitSeek /\ [][NextSeek]_vars

---------------------------------------------------------------------------
(* The compaction thread: PickCompaction on the version set Recover leaves, *)
(* with reads charging their seeks                                         *)

\* PickCompaction returns r.c: new Compaction takes a reference to current_
PickReturn(c, allow_seek_compaction, ver, cp, r) ==
  /\ SetWorld(IF r.c = NoCompaction THEN r.w
              ELSE WithState(r.w, VersionRef(State(r.w.heap, r.w.versions, r.w.ring),
                                             r.c.input_version)))
  /\ comp' = [comp EXCEPT ![c] = r.c]
  /\ hist' = [hist EXCEPT !.pick =
                [done |-> TRUE, allow_seek_compaction |-> allow_seek_compaction,
                 compaction_score |-> ver.compaction_score,
                 compaction_level |-> ver.compaction_level,
                 file_to_compact |-> ver.file_to_compact,
                 file_to_compact_level |-> ver.file_to_compact_level,
                 compact_pointer |-> cp, c |-> r.c]]

\* the background thread calls PickCompaction with M held
PickCompaction(c) ==
  /\ phase = "open"
  /\ mu = NoThread
  /\ comp[c] = NoCompaction
  /\ \E allow_seek_compaction \in BOOLEAN :
       PickReturn(c, allow_seek_compaction, versions[vs.current], vs.compact_pointer,
                  PickCompactionOf(World(heap, versions, ring, vs, fault),
                                   versions[vs.current], allow_seek_compaction))
  /\ UNCHANGED <<disk, durable, current_file, mu, pc, loc, held, phase, callers>>

\* the descriptors of the databases the compaction thread is started on
PickDescriptors ==
  LET a2 == FileMeta(0, 2, 16384, <<1, 2>>, <<1, 1>>)
      a3 == FileMeta(0, 3, 16384, <<1, 4>>, <<2, 3>>)
      b2 == FileMeta(1, 2, 16384, <<1, 2>>, <<1, 1>>)
      b3 == FileMeta(1, 3, 16384, <<2, 2>>, <<2, 1>>)
      h2 == FileMeta(1, 2, 8192, <<1, 2>>, <<1, 1>>)
      c3 == FileMeta(2, 3, 16384, <<1, 4>>, <<2, 3>>)
      g3 == FileMeta(2, 3, 49152, <<1, 4>>, <<2, 3>>)
      d3 == FileMeta(3, 3, 49152, <<1, 4>>, <<2, 3>>)
      one(cps, nf) == <<EditRecord(0, WithCounters(MkEdit("ok", cps, {}, nf, FALSE, 0),
                                                   0, 4, 10))>>
  IN {one(<<>>, <<a2, a3>>),
      one(<<>>, <<a2>>),
      one(<<>>, <<a2, c3>>),
      one(<<>>, <<a2, g3>>),
      one(<<>>, <<b2, d3>>),
      one(<<>>, <<h2, c3>>),
      one(<<>>, <<b2, b3>>),
      one(<<<<1, <<1, 1>>>>>>, <<b2, b3>>),
      one(<<<<1, <<2, 1>>>>>>, <<b2, b3>>)}

\* options_->enable_should_stop_before
ShouldStopModes == BOOLEAN

InitOnWith(mode, descriptors, sub) ==
  /\ \E rot \in RotatingModes, stop \in ShouldStopModes :
       LET w == ConstructedWith(rot, sub)
       IN /\ heap = w.heap
          /\ versions = w.versions
          /\ ring = w.ring
          /\ vs = [w.vs EXCEPT !.enable_should_stop_before = stop]
          /\ fault = w.fault
  /\ \E d \in descriptors :
       disk = [n \in DiskNums |-> IF n = 1 THEN DiskFile(d) ELSE NoDisk]
  /\ durable = [n \in DiskNums |-> IF n = 1 THEN 1 ELSE 0]
  /\ current_file = 1
  /\ mu = NoThread
  /\ pc = [t \in Threads |-> "idle"]
  /\ loc = [t \in Threads |-> IdleLoc]
  /\ held = [r \in Readers |-> 0]
  /\ comp = [c \in CompSlots |-> NoCompaction]
  /\ phase = "constructed"
  /\ callers = mode
  /\ hist = [calls |-> 0, charges |-> 0, base |-> <<>>, installed |-> <<>>,
             order |-> <<>>, producer |-> 0, ret |-> <<>>, pinned |-> [r \in Readers |-> 0],
             seek |-> 0, overlapped |-> FALSE, recover |-> "none",
             pick |-> NoPick, get |-> NoGet, stream |-> NoStream,
             updated |-> FALSE, output |-> NoOutput]

InitOn(mode, descriptors) == InitOnWith(mode, descriptors, enable_sublevel)

InitPick == InitOn("pick", PickDescriptors)

NextPick ==
  \/ Recover
  \/ \E r \in Readers : Pin(r)
  \/ \E r \in Readers : Unpin(r)
  \/ \E r \in Readers : UpdateStats(r)
  \/ \E c \in CompSlots : PickCompaction(c)
  \/ \E c \in CompSlots : ReleaseInputs(c)
  \/ \E c \in CompSlots : DeleteCompaction(c)

SpecPick == InitPick /\ [][NextPick]_vars

\* the databases whose only compactions are the ones the reads ask for
MoveDescriptors ==
  LET a2 == FileMeta(0, 2, 16384, <<1, 2>>, <<1, 1>>)
      h2 == FileMeta(1, 2, 8192, <<1, 2>>, <<1, 1>>)
      c3 == FileMeta(2, 3, 16384, <<1, 4>>, <<2, 3>>)
      d3 == FileMeta(3, 3, 49152, <<1, 4>>, <<2, 3>>)
      one(nf) == <<EditRecord(0, WithCounters(MkEdit("ok", <<>>, {}, nf, FALSE, 0),
                                              0, 4, 10))>>
  IN {one(<<a2>>), one(<<a2, c3>>), one(<<h2, c3>>), one(<<h2, d3>>)}

InitMove == InitOn("move", MoveDescriptors)

\* the background thread is scheduled when current_ needs a compaction
\* (compaction_score_ >= 1 or file_to_compact_ != NULL)
BackgroundCompaction(c) ==
  /\ \/ SizeCompaction(versions[vs.current].compaction_score)
     \/ versions[vs.current].file_to_compact # 0
  /\ PickCompaction(c)

\* the background thread: a compaction picked that is a trivial move is
\* carried out by LogAndApply of its edit
NextMove ==
  \/ Recover
  \/ \E t \in Threads : LogAndApplyBegin(t)
  \/ \E t \in Threads : LogAndApplyWrite(t)
  \/ \E t \in Threads : LogAndApplySync(t)
  \/ \E t \in Threads : LogAndApplySetCurrent(t)
  \/ \E t \in Threads : LogAndApplyRelock(t)
  \/ \E t \in Threads : LogAndApplyInstall(t)
  \/ \E r \in Readers : Pin(r)
  \/ \E r \in Readers : Unpin(r)
  \/ \E r \in Readers : UpdateStats(r)
  \/ \E c \in CompSlots : BackgroundCompaction(c)
  \/ \E c \in CompSlots : ReleaseInputs(c)
  \/ \E c \in CompSlots : DeleteCompaction(c)

SpecMove == InitMove /\ [][NextMove]_vars

---------------------------------------------------------------------------
(* Sublevels: a database opened with enable_sublevel                        *)

InitSublevel == InitOnWith("sublevel", {<<EditRecord(0, NewDBEdit)>>}, TRUE)

NextSublevel ==
  \/ Recover
  \/ \E t \in Threads : LogAndApplyBegin(t)
  \/ \E t \in Threads : LogAndApplyWrite(t)
  \/ \E t \in Threads : LogAndApplySync(t)
  \/ \E t \in Threads : LogAndApplySetCurrent(t)
  \/ \E t \in Threads : LogAndApplyRelock(t)
  \/ \E t \in Threads : LogAndApplyInstall(t)
  \/ ForeignApply
  \/ \E r \in Readers : Pin(r)
  \/ \E r \in Readers : Unpin(r)

SpecSublevel == InitSublevel /\ [][NextSublevel]_vars

---------------------------------------------------------------------------
(* The descriptor: LogAndApply over a database opened with or without      *)
(* rotating_manifest                                                        *)

InitManifest == InitIn("serial", BOOLEAN)

NextManifest ==
  \/ Recover
  \/ \E t \in Threads : LogAndApplyBegin(t)
  \/ \E t \in Threads : LogAndApplyWrite(t)
  \/ \E t \in Threads : LogAndApplySync(t)
  \/ \E t \in Threads : LogAndApplySetCurrent(t)
  \/ \E t \in Threads : LogAndApplyRelock(t)
  \/ \E t \in Threads : LogAndApplyInstall(t)

SpecManifest == InitManifest /\ [][NextManifest]_vars

\* the same callers on databases opened without and with enable_sublevel
SpecScore == (InitManifest \/ InitSublevel) /\ [][NextManifest]_vars

\* the same callers on a new database of large tables, sublevels enabled
InitLarge == InitOnWith("large", {<<EditRecord(0, NewDBEdit)>>}, TRUE)

SpecLarge == InitLarge /\ [][NextManifest]_vars

---------------------------------------------------------------------------
(* Manual and automatic compactions of one database: CompactRange next to *)
(* PickCompaction                                                         *)

\* the user keys of the ranges handed to CompactRange
RangeKeys == 1 .. 6

\* DBImpl hands CompactRange a begin of the highest sequence number and an
\* end of sequence number 0, or NULL for either
RangeBegins == {NoKey} \cup {<<k, 9>> : k \in RangeKeys}
RangeEnds == {NoKey} \cup {<<k, 0>> : k \in RangeKeys}

\* CompactRange returns r.c: new Compaction takes a reference to current_;
\* inputs is what its call of GetOverlappingInputs gave
RangeReturn(c, level, begin, end, ver, cp, inputs, r) ==
  /\ SetWorld(IF r.c = NoCompaction THEN r.w
              ELSE WithState(r.w, VersionRef(State(r.w.heap, r.w.versions, r.w.ring),
                                             r.c.input_version)))
  /\ comp' = [comp EXCEPT ![c] = r.c]
  /\ hist' = [hist EXCEPT !.pick =
                [done |-> TRUE, allow_seek_compaction |-> FALSE,
                 compaction_score |-> ver.compaction_score,
                 compaction_level |-> ver.compaction_level,
                 file_to_compact |-> ver.file_to_compact,
                 file_to_compact_level |-> ver.file_to_compact_level,
                 compact_pointer |-> cp, c |-> r.c,
                 range |-> [level |-> level, begin |-> begin, end |-> end,
                            overlapping |-> inputs,
                            seeded |-> RangeInputs(heap, level, inputs)]]]

\* a manual compaction: CompactRange(level, begin, end) with M held, level
\* being a level of current_; CompactRange reads neither allowed_seeks nor
\* file_to_compact_ nor compact_pointer_[level], and is run here as the
\* first compaction, before any read has charged a seek
CompactRange(c) ==
  /\ phase = "open"
  /\ mu = NoThread
  /\ comp[c] = NoCompaction
  /\ hist.charges = 0
  /\ ~hist.pick.done
  /\ \E level \in 0 .. (Len(versions[vs.current].files) - 1) :
       \E begin \in RangeBegins, end \in RangeEnds :
         RangeReturn(c, level, begin, end, versions[vs.current], vs.compact_pointer,
                     GetOverlappingInputs(heap, versions[vs.current], level, begin, end),
                     CompactRangeOf(World(heap, versions, ring, vs, fault),
                                    level, begin, end))
  /\ UNCHANGED <<disk, durable, current_file, mu, pc, loc, held, phase, callers>>

\* a table of the given level, number, size and user keys from lo to hi
RangeTable(level, number, size, lo, hi) ==
  FileMeta(level, number, size, <<lo, 2>>, <<hi, 1>>)

\* the descriptors of the databases compacted: level 0 with chains of
\* overlapping tables, levels 1 and 2 with tables that can and cannot be
\* taken in, tables of several sizes, tables that share a user key
CompactDescriptors ==
  LET T(level, number, lo, hi) == RangeTable(level, number, table_file_size, lo, hi)
      one(cps, nf) == <<EditRecord(0, WithCounters(MkEdit("ok", cps, {}, nf, FALSE, 0),
                                                   0, 6, 10))>>
  IN {one(<<>>, <<T(0, 2, 1, 2), T(0, 3, 2, 4), T(0, 4, 4, 5), T(1, 5, 3, 6)>>),
      one(<<>>, <<T(0, 2, 5, 6), T(0, 3, 3, 5), T(0, 4, 1, 3), T(1, 5, 1, 1)>>),
      one(<<>>, <<T(0, 2, 1, 1), T(0, 3, 3, 4), T(0, 4, 6, 6), T(1, 5, 2, 5)>>),
      one(<<>>, <<T(0, 2, 1, 2), T(0, 3, 4, 5), T(1, 4, 2, 4)>>),
      one(<<>>, <<T(0, 2, 1, 6), T(0, 3, 2, 3), T(0, 4, 5, 5)>>),
      one(<<>>, <<T(0, 2, 1, 2), T(0, 3, 2, 3), T(0, 4, 5, 6), T(0, 5, 6, 6)>>),
      one(<<>>, <<T(1, 2, 1, 3), T(1, 3, 4, 6), T(2, 4, 2, 5)>>),
      one(<<>>, <<T(1, 2, 1, 3), T(1, 3, 4, 6), T(2, 4, 2, 4), T(2, 5, 6, 6)>>),
      one(<<>>, <<T(1, 2, 1, 3), RangeTable(1, 3, 65536, 4, 6),
                  RangeTable(2, 4, 65536, 2, 5)>>),
      one(<<>>, <<FileMeta(1, 2, table_file_size, <<1, 2>>, <<3, 2>>),
                  FileMeta(1, 3, table_file_size, <<3, 1>>, <<5, 1>>),
                  T(2, 4, 6, 6)>>),
      one(<<<<1, <<2, 1>>>>>>, <<T(1, 2, 1, 2), T(1, 3, 3, 4), T(1, 4, 5, 6)>>),
      one(<<<<1, <<4, 5>>>>>>, <<T(1, 2, 1, 2), T(1, 3, 3, 4), T(1, 4, 5, 6)>>),
      one(<<<<1, <<6, 1>>>>>>, <<T(1, 2, 1, 2), T(1, 3, 3, 4), T(1, 4, 5, 6)>>),
      one(<<<<1, <<7, 1>>>>>>, <<T(1, 2, 1, 2), T(1, 3, 3, 4), T(2, 4, 1, 6)>>),
      one(<<>>, <<RangeTable(1, 2, 8192, 1, 2), RangeTable(1, 3, 8192, 3, 4),
                  RangeTable(1, 4, 8192, 5, 6)>>),
      one(<<>>, <<RangeTable(1, 2, 8192, 1, 2), RangeTable(1, 3, 16384, 3, 4),
                  RangeTable(1, 4, 8192, 5, 6), T(2, 5, 4, 4)>>),
      one(<<>>, <<RangeTable(1, 2, 49152, 1, 2), RangeTable(1, 3, 4096, 3, 4)>>),
      one(<<>>, <<>>)}

InitCompact == InitOn("pick", CompactDescriptors)

\* reads charge their seeks before the first compaction is asked for
NextCompact ==
  \/ Recover
  \/ \E r \in Readers : Pin(r)
  \/ \E r \in Readers : Unpin(r)
  \/ \E r \in Readers : ~hist.pick.done /\ UpdateStats(r)
  \/ \E c \in CompSlots : PickCompaction(c)
  \/ \E c \in CompSlots : CompactRange(c)
  \/ \E c \in CompSlots : ReleaseInputs(c)
  \/ \E c \in CompSlots : DeleteCompaction(c)

SpecCompact == InitCompact /\ [][NextCompact]_vars

---------------------------------------------------------------------------
(* The key stream of a compaction: ShouldStopBefore and IsBaseLevelForKey *)

\* the internal keys the merged input of a compaction hands out
StreamKeys == {<<u, 2>> : u \in 1 .. 6} \cup {<<2, 0>>, <<4, 0>>}

\* the user keys IsBaseLevelForKey is asked about
BaseKeys == 1 .. 6

\* the compaction a key stream runs over is picked before the stream starts
StreamPick(c) == hist.stream.calls = 0 /\ ~hist.stream.base.done /\ PickCompaction(c)

\* the compaction thread hands the next key of the merged input, a key
\* greater than the ones before, to ShouldStopBefore
StreamStop(c) ==
  /\ comp[c] # NoCompaction
  /\ comp[c].input_version > 0
  /\ \E key \in StreamKeys :
       /\ IF hist.stream.key = NoKey THEN TRUE
          ELSE IcmpCompare(key, hist.stream.key) > 0
       /\ LET r == ShouldStopBefore(heap, comp[c], vs.enable_should_stop_before,
                                    vs.enable_sublevel, key)
          IN /\ comp' = [comp EXCEPT ![c] = r.c]
             /\ hist' = [hist EXCEPT !.stream.calls = @ + 1,
                                     !.stream.key = key,
                                     !.stream.stop = [done |-> TRUE, key |-> key,
                                                      ret |-> r.ret, before |-> comp[c],
                                                      after |-> r.c]]
  /\ UNCHANGED <<heap, versions, ring, vs, disk, durable, current_file, mu, pc, loc,
                 held, phase, fault, callers>>

\* the compaction thread asks IsBaseLevelForKey about a user key not below
\* the ones asked about before; a use of level_ptrs_ beyond its size is
\* undefined: the call returns either value
StreamBase(c) ==
  /\ comp[c] # NoCompaction
  /\ comp[c].input_version > 0
  /\ \E user_key \in BaseKeys :
       /\ hist.stream.base.done => user_key >= hist.stream.base.key
       /\ LET r == IsBaseLevelForKey(heap, versions[comp[c].input_version], comp[c],
                                     user_key)
          IN /\ comp' = [comp EXCEPT ![c] = r.c]
             /\ fault' = FirstFault(fault, ~r.oob, "ub:level_ptrs")
             /\ \E ret \in IF r.oob THEN BOOLEAN ELSE {r.ret} :
                  hist' = [hist EXCEPT !.stream.base =
                             [done |-> TRUE, key |-> user_key, ret |-> ret,
                              before |-> comp[c], after |-> r.c]]
  /\ UNCHANGED <<heap, versions, ring, vs, disk, durable, current_file, mu, pc, loc,
                 held, phase, callers>>

\* the descriptors of the databases whose compactions are streamed: tables
\* of level 1 or 0 to compact, with tables two and three levels below
StreamDescriptors ==
  LET T(level, number, lo, hi) == RangeTable(level, number, table_file_size, lo, hi)
      one(nf) == <<EditRecord(0, WithCounters(MkEdit("ok", <<>>, {}, nf, FALSE, 0),
                                              0, 6, 10))>>
  IN {one(<<T(1, 2, 1, 6), T(3, 3, 1, 2), RangeTable(3, 4, 32768, 3, 4), T(3, 5, 5, 5)>>),
      one(<<T(1, 2, 1, 6), RangeTable(3, 3, 49152, 1, 4)>>),
      one(<<T(0, 2, 1, 3), T(0, 3, 2, 6), T(2, 4, 2, 3), RangeTable(2, 5, 32768, 5, 6)>>),
      one(<<T(1, 2, 1, 6), T(3, 3, 2, 2), T(4, 4, 2, 4), T(4, 5, 6, 6)>>),
      one(<<T(1, 2, 1, 6), FileMeta(3, 3, table_file_size, <<1, 2>>, <<3, 2>>),
            FileMeta(3, 4, 32768, <<3, 1>>, <<5, 1>>)>>),
      one(<<T(1, 2, 1, 3)>>)}

InitStream == InitOn("pick", StreamDescriptors)

NextStream ==
  \/ Recover
  \/ \E c \in CompSlots : StreamPick(c)
  \/ \E c \in CompSlots : StreamStop(c)
  \/ \E c \in CompSlots : StreamBase(c)
  \/ \E c \in CompSlots : ReleaseInputs(c)
  \/ \E c \in CompSlots : DeleteCompaction(c)

SpecStream == InitStream /\ [][NextStream]_vars

---------------------------------------------------------------------------
(* Sublevels: the compaction thread of a database opened with              *)
(* enable_sublevel, edits applied by one thread                            *)

NextPool ==
  \/ Recover
  \/ \E t \in Threads : LogAndApplyBegin(t)
  \/ \E t \in Threads : LogAndApplyWrite(t)
  \/ \E t \in Threads : LogAndApplySync(t)
  \/ \E t \in Threads : LogAndApplySetCurrent(t)
  \/ \E t \in Threads : LogAndApplyRelock(t)
  \/ \E t \in Threads : LogAndApplyInstall(t)
  \/ \E c \in CompSlots : StreamPick(c)
  \/ \E c \in CompSlots : StreamBase(c)
  \/ \E c \in CompSlots : ReleaseInputs(c)
  \/ \E c \in CompSlots : DeleteCompaction(c)

SpecPool == InitSublevel /\ [][NextPool]_vars

---------------------------------------------------------------------------
(* Flushes: the level for the table a memtable is written to *)

\* the user keys a memtable may span
OutputKeys == 1 .. 6

\* the thread that writes a memtable out asks the current version for the
\* level of the new table, with M held
MemTableOutput ==
  /\ phase = "open"
  /\ mu = NoThread
  /\ \E lo \in OutputKeys, hi \in OutputKeys :
       /\ lo <= hi
       /\ hist' = [hist EXCEPT !.output =
                     [done |-> TRUE, lo |-> lo, hi |-> hi, v |-> vs.current,
                      level |-> PickLevelForMemTableOutput(heap, versions[vs.current],
                                                           lo, hi)]]
  /\ fault' = FirstFault(fault, kMaxMemCompactLevel < Len(versions[vs.current].files),
                         "assert:PickLevelForMemTableOutput")
  /\ UNCHANGED <<heap, versions, ring, vs, disk, durable, current_file, mu, pc, loc, held,
                 comp, phase, callers>>

\* the descriptors of the databases flushed to: tables in levels 0 to 3
\* beside, under and over the range, grandparents below, at and above
\* max_grandparent_overlap_bytes, tables that share a user key
OutputDescriptors ==
  LET T(level, number, lo, hi) == RangeTable(level, number, table_file_size, lo, hi)
      one(nf) == <<EditRecord(0, WithCounters(MkEdit("ok", <<>>, {}, nf, FALSE, 0),
                                              0, 6, 10))>>
  IN {one(<<T(1, 2, 1, 3)>>),
      one(<<T(0, 2, 2, 3)>>),
      one(<<T(0, 2, 1, 1), T(0, 3, 4, 6)>>),
      one(<<T(1, 2, 1, 2), T(1, 3, 4, 5)>>),
      one(<<T(0, 2, 1, 2), T(1, 3, 4, 6)>>),
      one(<<T(2, 2, 1, 6)>>),
      one(<<T(2, 2, 1, 3), T(2, 3, 4, 6)>>),
      one(<<T(2, 2, 1, 2), T(2, 3, 3, 4), T(2, 4, 5, 6)>>),
      one(<<RangeTable(2, 2, 49152, 2, 5)>>),
      one(<<RangeTable(3, 2, 49152, 1, 4)>>),
      one(<<RangeTable(3, 2, 32768, 1, 6)>>),
      one(<<T(1, 2, 1, 1), T(2, 3, 3, 3), RangeTable(3, 4, 49152, 5, 6)>>),
      one(<<FileMeta(1, 2, table_file_size, <<1, 2>>, <<3, 2>>),
            FileMeta(1, 3, table_file_size, <<3, 1>>, <<5, 1>>)>>),
      one(<<>>)}

InitOutput == InitOn("pick", OutputDescriptors)

NextOutput ==
  \/ Recover
  \/ MemTableOutput

SpecOutput == InitOutput /\ [][NextOutput]_vars

---------------------------------------------------------------------------
(* Reads: Version::Get on a pinned version *)

\* the lookup keys: a user key and the sequence number of the snapshot
LookupKeys == (1 .. 3) \X {2, 3, 10}

\* ReadOptions::limit
ReadLimits == {1, 8}

\* the tables whose read may fail (0: none does)
FailingTables == 0 .. 6

\* a reader looks a key up in the version it pinned
Get(r) ==
  /\ held[r] # 0
  /\ \E k \in LookupKeys, limit \in ReadLimits, fail \in FailingTables :
       hist' = [hist EXCEPT !.get =
                  [done |-> TRUE, k |-> k, limit |-> limit, fail |-> fail, v |-> held[r],
                   g |-> VersionGet(heap, versions[held[r]], k, limit, fail)]]
  /\ UNCHANGED <<heap, versions, ring, vs, disk, durable, current_file, mu, pc, loc, held,
                 comp, phase, fault, callers>>

\* the file of table `number` in level `level`, as the edit that added it
\* describes it
TableMeta(level, number) ==
  FileMeta(level, number, 16384, TableEntries(number)[1].key,
           TableEntries(number)[Len(TableEntries(number))].key)

\* the descriptors of the databases read
GetDescriptors ==
  LET one(nf) == <<EditRecord(0, WithCounters(MkEdit("ok", <<>>, {}, nf, FALSE, 0),
                                              0, 7, 10))>>
  IN {one(<<TableMeta(0, 2), TableMeta(0, 3), TableMeta(1, 4), TableMeta(1, 5)>>),
      one(<<TableMeta(0, 3), TableMeta(1, 4), TableMeta(1, 5), TableMeta(2, 6)>>),
      one(<<TableMeta(0, 2), TableMeta(0, 3), TableMeta(1, 4), TableMeta(2, 6)>>),
      one(<<TableMeta(0, 2), TableMeta(0, 3), TableMeta(2, 6)>>),
      one(<<TableMeta(0, 2), TableMeta(1, 5), TableMeta(2, 6)>>),
      one(<<TableMeta(1, 4), TableMeta(1, 5), TableMeta(2, 6)>>),
      one(<<TableMeta(0, 3), TableMeta(0, 2)>>),
      one(<<TableMeta(2, 4), TableMeta(2, 5)>>),
      one(<<>>)}

InitGet == InitOn("get", GetDescriptors)

NextGet ==
  \/ Recover
  \/ \E r \in Readers : Pin(r)
  \/ \E r \in Readers : Unpin(r)
  \/ \E r \in Readers : Get(r)

SpecGet == InitGet /\ [][NextGet]_vars

---------------------------------------------------------------------------
(* Recover over the database directories a crash or a fault can leave:     *)
(* up to three descriptors, whole or damaged, and a CURRENT file or none   *)

\* an edit that adds the files nf and carries three of the counters
TupleEdit(nf, seq, next, log) ==
  WithCounters(MkEdit("ok", <<>>, {}, nf, FALSE, 0), log, next, seq)

\* the descriptors found: whole ones that end at different counters, one
\* of several records, and the damaged ones
RecoverDescriptors ==
  LET t2 == FileMeta(1, 2, 16384, <<1, 2>>, <<1, 1>>)
      t3 == FileMeta(0, 3, 16384, <<2, 2>>, <<2, 1>>)
      t4 == FileMeta(2, 4, 16384, <<1, 2>>, <<2, 1>>)
      older == TupleEdit(<<t2>>, 50, 10, 9)
      newer == TupleEdit(<<t3>>, 60, 12, 11)
      t5 == FileMeta(1, 5, 32768, <<2, 2>>, <<2, 1>>)
      move == [MkEdit("none", <<>>, {<<1, 2>>}, <<t4>>, FALSE, 0)
                 EXCEPT !.has_last_sequence = TRUE, !.last_sequence = 55]
      drop == MkEdit("none", <<<<2, <<2, 1>>>>>>, {<<2, 4>>}, <<>>, FALSE, 0)
      full == WithCounters(MkEdit("ok", <<<<1, <<1, 1>>>>>>, {}, <<t3, t2, t5>>, FALSE, 0),
                           13, 14, 70)
  IN {<<EditRecord(0, full)>>,
      <<EditRecord(0, older), EditRecord(0, move), EditRecord(0, drop)>>,
      <<EditRecord(0, older)>>,
      <<EditRecord(0, newer)>>,
      <<EditRecord(0, [older EXCEPT !.has_prev_log_number = TRUE,
                                    !.prev_log_number = 8])>>,
      <<EditRecord(0, older), EditRecord(0, move)>>,
      <<EditRecord(0, [newer EXCEPT !.has_log_number = FALSE])>>,
      <<EditRecord(0, [newer EXCEPT !.has_next_file_number = FALSE])>>,
      <<EditRecord(0, [newer EXCEPT !.has_last_sequence = FALSE])>>,
      <<EditRecord(0, newer), CorruptRecord>>,
      <<UndecodableRecord>>,
      <<EditRecord(0, [newer EXCEPT !.comparator = "bad"])>>}

\* the FileMetaData objects the builders of Recover allocate for a directory
NewFilesOf(dsk) ==
  LET n(recs) == Len(Flatten([i \in 1 .. Len(recs) |->
                                IF recs[i].type = "edit" THEN recs[i].edit.new_files
                                ELSE <<>>], 1))
  IN n(dsk[1].recs) + n(dsk[2].recs) + n(dsk[3].recs)

InitRecover ==
  /\ \E rot \in BOOLEAN :
       LET w == Constructed(rot)
       IN /\ heap = w.heap
          /\ versions = w.versions
          /\ ring = w.ring
          /\ vs = w.vs
          /\ fault = w.fault
  /\ \E d1, d2 \in {NoDisk} \cup {DiskFile(d) : d \in RecoverDescriptors} :
       \E d3 \in {NoDisk} \cup {DiskFile(d) : d \in RecoverDescriptors} :
         /\ disk = <<d1, d2, d3>>
         /\ NewFilesOf(<<d1, d2, d3>>) <= Cardinality(ObjIds)
  /\ durable = [n \in DiskNums |-> Len(disk[n].recs)]
  /\ current_file \in {0} \cup DiskNums
  /\ mu = NoThread
  /\ pc = [t \in Threads |-> "idle"]
  /\ loc = [t \in Threads |-> IdleLoc]
  /\ held = [r \in Readers |-> 0]
  /\ comp = [c \in CompSlots |-> NoCompaction]
  /\ phase = "constructed"
  /\ callers = "recover"
  /\ hist = [calls |-> 0, charges |-> 0, base |-> <<>>, installed |-> <<>>,
             order |-> <<>>, producer |-> 0, ret |-> <<>>, pinned |-> [r \in Readers |-> 0],
             seek |-> 0, overlapped |-> FALSE, recover |-> "none",
             pick |-> NoPick, get |-> NoGet, stream |-> NoStream,
             updated |-> FALSE, output |-> NoOutput]

NextRecover == Recover

SpecRecover == InitRecover /\ [][NextRecover]_vars

---------------------------------------------------------------------------
(* Properties *)

\* the record of call c is in the descriptor, among the records synced
DurablyLogged(c) ==
  /\ vs.descriptor_log # 0
  /\ disk[vs.descriptor_log].exists
  /\ \E k \in 1 .. durable[vs.descriptor_log] :
       /\ k <= Len(disk[vs.descriptor_log].recs)
       /\ disk[vs.descriptor_log].recs[k].type = "edit"
       /\ disk[vs.descriptor_log].recs[k].call = c

\* C1: a version that LogAndApply has made current comes from an edit whose
\* record is in the MANIFEST and was synced with success: this holds of the
\* call that produced current and of every call that installed a version,
\* and the descriptor they wrote to is the one CURRENT names
C1_InstallAfterSync ==
  /\ hist.producer # 0 => DurablyLogged(hist.producer)
  /\ \A i \in 1 .. Len(hist.order) : DurablyLogged(hist.order[i])
  /\ (hist.order # <<>> /\ ~vs.rotating_manifest) => current_file = vs.descriptor_log

\* a LogAndApply call has installed the current version
C1_Witness ==
  /\ hist.producer # 0
  /\ vs.current = ring[Len(ring)]
  /\ DurablyLogged(hist.producer)

\* C2: a LogAndApply call that returns an error leaves current (the same
\* version, the same files), log_number, prev_log_number, next_file_number
\* and last_sequence as they were when it was entered; its version v is
\* destroyed and is not in the ring; the version set stays open
C2_FailureLeavesState ==
  [][\A t \in Threads :
       (pc[t] = "install" /\ pc'[t] = "idle" /\ loc[t].s # "OK") =>
         /\ Snapshot(versions', vs') = loc[t].pre
         /\ versions'[loc[t].v] = NoVersion
         /\ \A i \in 1 .. Len(ring') : ring'[i] # loc[t].v
         /\ phase' = "open"
         /\ hist'.ret[Len(hist'.ret)].status = loc[t].s
         /\ hist'.order = hist.order]_vars

\* a call failed and a later call succeeded
C2_Witness ==
  \E i, j \in 1 .. Len(hist.ret) :
    /\ i < j
    /\ hist.ret[i].status # "OK"
    /\ hist.ret[j].status = "OK"
    /\ hist.producer = hist.ret[j].call

\* C3 as stated: at most one thread is between entering LogAndApply and
\* returning from it
C3_AtMostOneCall ==
  \A t, u \in Threads : (pc[t] # "idle" /\ pc[u] # "idle") => t = u

\* C3: what M gives: the part of LogAndApply after mu->Lock() is run by the
\* thread that holds M, so by one thread at a time
C3_MutexSections ==
  /\ \A t \in Threads : pc[t] = "install" <=> mu = t
  /\ \A t, u \in Threads : (pc[t] = "install" /\ pc[u] = "install") => t = u

\* one call is about to install while another call is under way
C3_Witness ==
  \E t, u \in Threads :
    /\ t # u
    /\ pc[t] = "install"
    /\ pc[u] \in {"write", "sync", "setcurrent", "relock"}

\* the calls of the edit records of a descriptor, in the order of the file
RecordCalls(recs) ==
  [i \in 1 .. Len(SelectSeq(recs, LAMBDA x : x.type = "edit")) |->
     SelectSeq(recs, LAMBDA x : x.type = "edit")[i].call]

\* C4 as stated: whatever the callers do, the records in the MANIFEST of the
\* calls that installed a version are in the order of the installs
C4_ManifestOrder ==
  IF vs.descriptor_log = 0 THEN hist.order = <<>>
  ELSE SelectSeq(RecordCalls(disk[vs.descriptor_log].recs),
                 LAMBDA c : \E i \in 1 .. Len(hist.order) : hist.order[i] = c)
         = hist.order

\* C4: as long as no call has entered LogAndApply while another call was
\* under way, the records in the MANIFEST of the calls that installed a
\* version are in the order of the installs
C4_SerialManifestOrder ==
  ~hist.overlapped => C4_ManifestOrder

\* two calls that did not overlap have installed a version
C4_Witness ==
  /\ ~hist.overlapped
  /\ Len(hist.order) >= 2
  /\ vs.descriptor_log # 0
  /\ Len(disk[vs.descriptor_log].recs) >= 3

\* the levels over which file sets are compared: a files_ vector stands for
\* empty levels beyond its end
AllLevels == 1 .. kMaxMemCompactLevel + 3

PadSets(sets) == [l \in AllLevels |-> IF l <= Len(sets) THEN sets[l] ELSE {}]

\* the file sets after an edit: the deleted files leave, the new files enter
ApplyEditSets(sets, e) ==
  [l \in AllLevels |->
     {f \in sets[l] : <<l - 1, f.number>> \notin e.deleted_files}
     \cup {[number |-> e.new_files[i].number, file_size |-> e.new_files[i].file_size,
            smallest |-> e.new_files[i].smallest, largest |-> e.new_files[i].largest]
             : i \in {k \in 1 .. Len(e.new_files) : e.new_files[k].level = l - 1}}]

RECURSIVE FoldEdits(_, _, _, _)
\* the file sets after the edits i .. n of a sequence of edits
FoldEdits(sets, edits, i, n) ==
  IF i > n THEN sets ELSE FoldEdits(ApplyEditSets(sets, edits[i]), edits, i + 1, n)

\* the file sets of version v
VersionSets(v) == PadSets(FileSets(heap, versions[v].files))

\* C5: the files of current are those of the recovered version with every
\* edit installed so far applied in the order of the installs, and the
\* version a reader pinned holds the files with the edits applied that were
\* installed when it pinned
C5_CurrentIsFold ==
  phase = "open" =>
    /\ VersionSets(vs.current)
         = FoldEdits(PadSets(hist.base), hist.installed, 1, Len(hist.installed))
    /\ \A r \in Readers :
         held[r] # 0 =>
           VersionSets(held[r])
             = FoldEdits(PadSets(hist.base), hist.installed, 1, hist.pinned[r])

\* a reader holds the version of the first install after a second install
\* that took a file away
C5_Witness ==
  \E r \in Readers :
    /\ held[r] # 0
    /\ hist.pinned[r] = 1
    /\ Len(hist.installed) = 2
    /\ hist.installed[2].deleted_files # {}
    /\ VersionSets(held[r]) # VersionSets(vs.current)

\* the fields of a version that the compaction picker reads
Picked(ver) ==
  <<ver.files, ver.compaction_score, ver.compaction_level>>

\* version v is in the ring
InRing(v) == \E i \in 1 .. Len(ring) : ring[i] = v

Holders(v) ==
  (IF vs.current = v THEN 1 ELSE 0)
  + Cardinality({r \in Readers : held[r] = v})
  + Cardinality({c \in CompSlots : comp[c].input_version = v})

\* version v is the one a call in progress has built and not yet installed
Pending(v) == \E t \in Threads : pc[t] # "idle" /\ loc[t].v = v

\* C7: current is the last version of the ring and has a reference; a
\* version exists and is in the ring as long as it has a holder, with one
\* reference per holder; a version nobody holds does not exist, unless it
\* is the version a call in progress has not yet installed
C7_VersionLifetime ==
  /\ ring # <<>>
  /\ vs.current = ring[Len(ring)]
  /\ versions[vs.current] # NoVersion
  /\ versions[vs.current].refs >= 1
  /\ \A i, j \in 1 .. Len(ring) : ring[i] = ring[j] => i = j
  /\ \A v \in VerIds :
       /\ Holders(v) > 0 => (versions[v] # NoVersion /\ InRing(v))
       /\ InRing(v) => (versions[v] # NoVersion /\ versions[v].refs = Holders(v)
                        /\ Holders(v) >= 1)
       /\ (versions[v] # NoVersion /\ ~InRing(v)) => (versions[v].refs = 0 /\ Pending(v))

\* an old version is kept by a reader while later versions have come and
\* one of them is gone
C7_Witness ==
  \E r \in Readers :
    /\ held[r] # 0
    /\ held[r] # vs.current
    /\ Len(hist.installed) = 2
    /\ hist.pinned[r] = 0
    /\ Len(ring) = 2

\* the places where file object f is listed: version, level, position
Listings(f) ==
  {x \in VerIds \X AllLevels \X ObjIds :
     /\ versions[x[1]] # NoVersion
     /\ x[2] <= Len(versions[x[1]].files)
     /\ x[3] <= Len(versions[x[1]].files[x[2]])
     /\ versions[x[1]].files[x[2]][x[3]] = f}

\* C8: a file object exists exactly as long as a version lists it, with one
\* reference per listing: every file a version lists exists and has a
\* reference, and a file no version lists any more has been freed
C8_FileRefs ==
  \A f \in ObjIds :
    /\ Listings(f) # {} => (heap[f] # NoFile /\ heap[f].refs >= 1)
    /\ heap[f] # NoFile => (heap[f].refs = Cardinality(Listings(f)) /\ heap[f].refs >= 1)

\* a file is listed by two versions and a file of an earlier version has
\* been freed
C8_Witness ==
  /\ \E f \in ObjIds : heap[f] # NoFile /\ heap[f].refs >= 2
  /\ \E l \in AllLevels : \E d \in PadSets(hist.base)[l] :
       \A f \in ObjIds : heap[f] # NoFile => heap[f].number # d.number

\* the numbers of the files version v lists
VersionNumbers(v) ==
  {heap[versions[v].files[x[1]][x[2]]].number :
     x \in {y \in AllLevels \X ObjIds :
              /\ y[1] <= Len(versions[v].files)
              /\ y[2] <= Len(versions[v].files[y[1]])}}

\* the versions in use: current, those readers pinned, the input versions
\* of the compactions that have not released their inputs
VersionsInUse ==
  {vs.current} \cup {held[r] : r \in {q \in Readers : held[q] # 0}}
  \cup {comp[c].input_version : c \in {k \in CompSlots : comp[k].input_version > 0}}

\* C9: AddLiveFiles yields the numbers of the files of current, of the
\* versions readers pinned and of the input versions of the compactions
\* that have not released their inputs, and of no other version
C9_LiveFiles ==
  phase = "open" =>
    AddLiveFiles(heap, versions, ring) = UNION {VersionNumbers(v) : v \in VersionsInUse}

\* the input version of a compaction lists a file that current lacks
C9_Witness ==
  \E c \in CompSlots :
    /\ comp[c].input_version > 0
    /\ comp[c].input_version # vs.current
    /\ ~(VersionNumbers(comp[c].input_version) \subseteq VersionNumbers(vs.current))

\* C10: in every version of the ring, the files of a level above 0 are in
\* the order of their keys and share no key: each file's largest key is
\* below the smallest key of the files after it
C10_LevelsDisjoint ==
  \A v \in VerIds :
    InRing(v) =>
      \A l \in 2 .. Len(versions[v].files) :
        \A i, j \in 1 .. Len(versions[v].files[l]) :
          i < j => IcmpCompare(heap[versions[v].files[l][i]].largest,
                               heap[versions[v].files[l][j]].smallest) < 0

\* an edit has put a file before a file of the same level above 0
C10_Witness ==
  \E l \in 2 .. Len(versions[vs.current].files) :
    /\ Len(versions[vs.current].files[l]) >= 2
    /\ heap[versions[vs.current].files[l][1]].number
         > heap[versions[vs.current].files[l][2]].number

\* C11: the last level of every version is empty, in the ring or just built,
\* whether LogAndApply, ForeighApply or Recover built it, and the builder's
\* check of it never fails
C11_LastLevelEmpty ==
  /\ fault # "assert:SaveTo"
  /\ \A v \in VerIds :
       versions[v] # NoVersion =>
         /\ Len(versions[v].files) >= kMaxMemCompactLevel + 1
         /\ versions[v].files[Len(versions[v].files)] = <<>>

\* an edit has put a file in the last level of the version before it, and
\* the version built has one level more
C11_Witness ==
  /\ phase = "open"
  /\ Len(versions[vs.current].files) = kMaxMemCompactLevel + 2
  /\ versions[vs.current].files[kMaxMemCompactLevel + 1] # <<>>
  /\ versions[vs.current].files[kMaxMemCompactLevel + 2] = <<>>

\* C12 as stated: of two LogAndApply calls the later returns with a greater
\* next_file_number than the earlier
C12_StrictlyMonotone ==
  \A i, j \in 1 .. Len(hist.ret) :
    i < j => hist.ret[i].next_file_number < hist.ret[j].next_file_number

\* C12: once the version set is open next_file_number never decreases, and
\* LogAndApply leaves it as the caller handed it over: the value at the
\* return is the value at the entry, which is the value the edit records
C12_NeverDecreases ==
  [][phase = "open" =>
       /\ vs'.next_file_number >= vs.next_file_number
       /\ \A t \in Threads :
            (pc[t] = "install" /\ pc'[t] = "idle") =>
              /\ vs'.next_file_number = loc[t].pre.next_file_number
              /\ vs'.next_file_number = loc[t].edit.next_file_number
              /\ vs'.next_file_number = vs.next_file_number]_vars

\* two LogAndApply calls have returned, the second with the next_file_number
\* of the first: its edit named no new file number
C12_Witness ==
  /\ Len(hist.ret) = 2
  /\ hist.ret[1].status = "OK"
  /\ hist.ret[2].status = "OK"
  /\ hist.ret[1].next_file_number = hist.ret[2].next_file_number
  /\ vs.next_file_number = hist.ret[2].next_file_number

\* the candidates of Recover in the order it reads them: MANIFEST-1,
\* MANIFEST-2, the file CURRENT names (0: no such candidate)
CandNames == RecoverNames(disk, current_file)

CandPresent(i) == CandNames[i] # 0

CandRecs(i) == disk[CandNames[i]].recs

\* the candidate can be opened and every record of it is an edit of this
\* database's comparator
CandParses(i) ==
  /\ CandPresent(i)
  /\ disk[CandNames[i]].exists
  /\ \A k \in 1 .. Len(CandRecs(i)) :
       CandRecs(i)[k].type = "edit" /\ CandRecs(i)[k].edit.comparator # "bad"

\* the value the last edit that sets a counter gives it, -1 when none does
CounterOf(recs, Has(_), Val(_)) ==
  LET K == {k \in 1 .. Len(recs) : Has(recs[k].edit)}
  IN IF K = {} THEN -1 ELSE Val(recs[CHOOSE k \in K : \A m \in K : m <= k].edit)

CandLastSeq(i) ==
  CounterOf(CandRecs(i), LAMBDA e : e.has_last_sequence, LAMBDA e : e.last_sequence)
CandNextFile(i) ==
  CounterOf(CandRecs(i), LAMBDA e : e.has_next_file_number, LAMBDA e : e.next_file_number)
CandLogNumber(i) ==
  CounterOf(CandRecs(i), LAMBDA e : e.has_log_number, LAMBDA e : e.log_number)
CandPrevLog(i) ==
  CounterOf(CandRecs(i), LAMBDA e : e.has_prev_log_number, LAMBDA e : e.prev_log_number)

\* (last_sequence, next_file_number, log_number, prev_log_number) of a
\* candidate, a prev_log_number no edit sets counting as 0
CandTuple(i) ==
  <<CandLastSeq(i), CandNextFile(i), CandLogNumber(i),
    IF CandPrevLog(i) = -1 THEN 0 ELSE CandPrevLog(i)>>

\* the candidate parses and its edits set last_sequence, next_file_number
\* and log_number
CandValid(i) ==
  /\ CandParses(i)
  /\ CandLastSeq(i) # -1
  /\ CandNextFile(i) # -1
  /\ CandLogNumber(i) # -1

\* the file sets the edits of a candidate give, applied to no files
CandSets(i) ==
  FoldEdits(PadSets(<<>>), [k \in 1 .. Len(CandRecs(i)) |-> CandRecs(i)[k].edit],
            1, Len(CandRecs(i)))

TupleGeq(a, b) == \A k \in 1 .. 4 : a[k] >= b[k]

\* the version and the counters of the version set are those of candidate i
InstalledFrom(i) ==
  /\ vs.last_sequence = CandTuple(i)[1]
  /\ vs.next_file_number
       = IF vs.rotating_manifest THEN CandTuple(i)[2] ELSE CandTuple(i)[2] + 1
  /\ vs.manifest_file_number
       = IF ~vs.rotating_manifest THEN CandTuple(i)[2] ELSE IF i = 1 THEN 2 ELSE 1
  /\ vs.log_number = CandTuple(i)[3]
  /\ vs.prev_log_number = CandTuple(i)[4]
  /\ PadSets(hist.base) = CandSets(i)
  /\ VersionSets(vs.current) = CandSets(i)

C14_OneDamagedTolerated ==
  (phase # "constructed" /\ \E i \in 1 .. 3 : CandValid(i)) =>
    /\ phase = "open"
    /\ hist.recover = "OK"
    /\ \E i \in 1 .. 3 : CandValid(i) /\ InstalledFrom(i)

ReplaySaved(ap, vv) ==
  LET sv == BuilderSaveTo(ap.heap, vv, ap.b, NewVersion.files, "none")
  IN [sets |-> PadSets(FileSets(sv.heap, sv.files)), cp |-> ap.cp, fault |-> sv.fault]

ReplayOver(w, e, bn) ==
  ReplaySaved(BuilderApply(bn.st.heap, w.vs.compact_pointer, bn.b, e), bn.st.versions)

ReplayFrom(w, e) ==
  ReplayOver(w, e, BuilderNew(State(w.heap, w.versions, w.ring), w.vs.current,
                             w.vs.enable_sublevel))

Replay(e) == ReplayFrom(Constructed(FALSE), e)

\* the compact pointers of pointer vector cp that are set, by level
PointerSets(cp) == {<<l - 1, cp[l]>> : l \in {k \in 1 .. Len(cp) : cp[k] # NoKey}}

\* the number of files of version v
NumFiles(v) == Len(Flatten(versions[v].files, 1))

\* the edit WriteSnapshot writes for v holds the comparator name, the
\* compact pointers that are set, one new file per file of v and no deletion
SnapshotHoldsAll(v, e) ==
  /\ e.comparator = "ok"
  /\ e.deleted_files = {}
  /\ Len(e.new_files) = NumFiles(v)
  /\ {e.compact_pointers[i] : i \in 1 .. Len(e.compact_pointers)}
       = PointerSets(vs.compact_pointer)
  /\ Len(e.compact_pointers) = Cardinality(PointerSets(vs.compact_pointer))

\* replaying e over an empty version gives the file sets and pointers of v
ReplayGives(v, r) ==
  /\ r.fault = "none"
  /\ r.sets = VersionSets(v)
  /\ PointerSets(r.cp) = PointerSets(vs.compact_pointer)

\* C16: the edit WriteSnapshot writes for a version names the comparator,
\* every compact pointer that is set, every file of every level and no
\* deletion, and a builder that applies it over an empty version saves a
\* version with the same files in every level
C16_SnapshotReplay ==
  phase = "open" =>
    \A v \in {x \in VerIds : InRing(x)} :
      /\ SnapshotHoldsAll(v, SnapshotEdit(heap, versions, [vs EXCEPT !.current = v]))
      /\ ReplayGives(v, Replay(SnapshotEdit(heap, versions, [vs EXCEPT !.current = v])))

\* a recovered version of three files in two levels with a compact pointer
C16_Witness ==
  /\ phase = "open"
  /\ NumFiles(vs.current) = 3
  /\ Cardinality({l \in 1 .. Len(versions[vs.current].files) :
                    versions[vs.current].files[l] # <<>>}) = 2
  /\ PointerSets(vs.compact_pointer) # {}
  /\ ReplayGives(vs.current, Replay(SnapshotEdit(heap, versions, vs)))

\* the files of level `level` of version v
LevelFileSet(v, level) ==
  IF versions[v] = NoVersion \/ level + 1 > Len(versions[v].files) THEN {}
  ELSE {versions[v].files[level + 1][i] : i \in 1 .. Len(versions[v].files[level + 1])}

SeqSet(q) == {q[i] : i \in 1 .. Len(q)}

\* C17: PickCompaction returns a compaction of current_'s compaction level
\* over files of that level whenever the compaction score is at least 1,
\* whether or not a file is due for a seek compaction; below 1 it returns a
\* compaction of file_to_compact_'s level that holds that file iff seek
\* compactions are allowed and the file is set; otherwise it returns NULL
C17_PickOrder ==
  hist.pick.done =>
    LET p == hist.pick
    IN IF p.compaction_score[1] >= p.compaction_score[2]
       THEN /\ p.c # NoCompaction
            /\ p.c.level = p.compaction_level
            /\ p.c.inputs[1] # <<>>
            /\ comp[1] = p.c =>
                 SeqSet(p.c.inputs[1]) \subseteq LevelFileSet(p.c.input_version, p.c.level)
       ELSE IF p.allow_seek_compaction /\ p.file_to_compact # 0
       THEN /\ p.c # NoCompaction
            /\ p.c.level = p.file_to_compact_level
            /\ p.file_to_compact \in SeqSet(p.c.inputs[1])
       ELSE p.c = NoCompaction

\* a level is at its limit while a file of another level is due for a seek
\* compaction, and the compaction returned is the one of the level
C17_Witness ==
  /\ hist.pick.done
  /\ hist.pick.compaction_score[1] = hist.pick.compaction_score[2]
  /\ hist.pick.allow_seek_compaction
  /\ hist.pick.file_to_compact # 0
  /\ hist.pick.file_to_compact_level # hist.pick.compaction_level
  /\ hist.pick.c # NoCompaction
  /\ hist.pick.c.level = hist.pick.compaction_level
  /\ hist.pick.file_to_compact \notin SeqSet(hist.pick.c.inputs[1])

\* the compactions picked whose input version is still referenced
LiveCompactions == {c \in CompSlots : comp[c] # NoCompaction /\ comp[c].input_version > 0}

\* the bytes of the grandparent files of compaction c
GrandparentBytes(c) == TotalFileSize(heap, comp[c].grandparents)

\* the description of a file an edit adds, as the file sets hold it
Described(m) ==
  [number |-> m.number, file_size |-> m.file_size, smallest |-> m.smallest,
   largest |-> m.largest]

RECURSIVE MovedSets(_, _, _, _)
\* the file sets once the files the edits i .. n name as new have moved, one
\* after the other, from the level above theirs to their level
MovedSets(sets, edits, i, n) ==
  IF i > n THEN sets
  ELSE LET m == edits[i].new_files[1]
       IN MovedSets([l \in AllLevels |->
                       IF l = m.level THEN sets[l] \ {Described(m)}
                       ELSE IF l = m.level + 1 THEN sets[l] \cup {Described(m)}
                       ELSE sets[l]],
                    edits, i + 1, n)

LevelZeroCandidates(v, k) ==
  NewestFirstSort(heap, {f \in LevelFileSet(v, 0) :
                           heap[f].smallest[1] <= k[1] /\ k[1] <= heap[f].largest[1]})

\* the candidate of a level above 0: the first file of the level that does
\* not end before k, if its range starts at or before the user key of k
LevelCandidate(v, level, k) ==
  LET fs == versions[v].files[level + 1]
      reach == {i \in 1 .. Len(fs) : IcmpCompare(heap[fs[i]].largest, k) >= 0}
  IN IF reach = {} THEN <<>>
     ELSE IF heap[fs[MinOf(reach)]].smallest[1] <= k[1] THEN <<fs[MinOf(reach)]>>
     ELSE <<>>

\* the numbers of the candidate files of version v for k, in the order of
\* the levels
CandidateOrder(v, k) ==
  LET all == LevelZeroCandidates(v, k)
               \o Flatten([l \in 1 .. Len(versions[v].files) - 1 |->
                              LevelCandidate(v, l, k)], 1)
  IN [i \in 1 .. Len(all) |-> heap[all[i]].number]

\* what the lookup of k in table `number` finds
Outcome(number, k) ==
  IF TableSeek(number, k) = <<>> THEN "NotFound"
  ELSE IF TableSeek(number, k)[1].kind = "bad" THEN "Corrupt"
  ELSE IF TableSeek(number, k)[1].key[1] # k[1] THEN "NotFound"
  ELSE IF TableSeek(number, k)[1].kind = "value" THEN "Found"
  ELSE "Deleted"

\* the status Get returns for the outcome that ends the search
StatusFor(outcome) ==
  IF outcome = "Found" THEN "OK"
  ELSE IF outcome = "Deleted" THEN "NotFound"
  ELSE "Corruption"

\* Get's answer g for k is the one of a search through the tables `order`
\* that ends at the first of `ends`, or finds nothing when `ends` is empty
SearchEndsAt(g, k, limit, order, ends, failed) ==
  IF ends = {}
  THEN g.read = order /\ g.status = "NotFound"
  ELSE /\ g.read = SubSeq(order, 1, MinOf(ends))
       /\ g.status = IF failed THEN "IOError"
                     ELSE StatusFor(Outcome(order[MinOf(ends)], k))
       /\ (g.status = "OK") =>
            g.buf = Fill(TableSeek(order[MinOf(ends)], k)[1].value, limit)

\* C19 as stated: Get reads the candidate files in order (level 0 newest
\* first, then one file at most per level) up to the first one that
\* resolves the key and returns ok with the value for Found, NotFound for
\* Deleted, Corruption for Corrupt; NotFound if none resolves it
C19_StopsAtFirstResolved ==
  (hist.get.done /\ held[1] = hist.get.v) =>
    LET order == CandidateOrder(hist.get.v, hist.get.k)
    IN SearchEndsAt(hist.get.g, hist.get.k, hist.get.limit, order,
                    {i \in 1 .. Len(order) : Outcome(order[i], hist.get.k) # "NotFound"},
                    FALSE)

\* C19: Get reads the candidate files in order (level 0 newest first, then
\* one file at most per level) up to the first one whose read fails or
\* resolves the key; it returns the error of the failed read, or ok with
\* the value cut to the limit for Found, NotFound for Deleted, Corruption
\* for Corrupt; NotFound if no read fails and none resolves the key
C19_StopsAtFirstResolvedOrFailed ==
  (hist.get.done /\ held[1] = hist.get.v) =>
    LET order == CandidateOrder(hist.get.v, hist.get.k)
        ends == {i \in 1 .. Len(order) :
                   \/ order[i] = hist.get.fail
                   \/ Outcome(order[i], hist.get.k) # "NotFound"}
    IN SearchEndsAt(hist.get.g, hist.get.k, hist.get.limit, order, ends,
                    ends # {} /\ order[MinOf(ends)] = hist.get.fail)

\* a Get went through two files of level 0, newest first, and a file of
\* a further level, where it found the value
C19_Witness ==
  /\ hist.get.done
  /\ held[1] = hist.get.v
  /\ Len(hist.get.g.read) >= 3
  /\ hist.get.g.read[1] > hist.get.g.read[2]
  /\ hist.get.g.status = "OK"
  /\ hist.get.g.buf # <<>>
  /\ Len(CandidateOrder(hist.get.v, hist.get.k)) > Len(hist.get.g.read)

---------------------------------------------------------------------------
(* Sublevel pools *)

\* the pools of ver pair up level by level, level 0 is the single sublevel 0
\* in both, and the output pool of the last level holds no sublevel
PoolsInShape(ver) ==
  /\ Len(ver.input_pool) = Len(ver.output_pool)
  /\ Len(ver.input_pool) >= 1
  /\ ver.input_pool[1] = <<0, 1>>
  /\ ver.output_pool[1] = <<0, 1>>
  /\ ver.output_pool[Len(ver.output_pool)][2] = 0

\* C20: with sublevels enabled, the current version and every version that
\* LogAndApply or ForeighApply has built have as many input-pool entries as
\* output-pool entries, <<0, 1>> as entry 0 of both pools, and a last
\* output-pool entry of length 0
C20_PoolsInShape ==
  vs.enable_sublevel =>
    \A v \in VerIds : versions[v] # NoVersion => PoolsInShape(versions[v])

\* a version built by the third apply is current; it has three levels and a
\* level whose output pool holds a sublevel
C20_Witness ==
  /\ vs.enable_sublevel
  /\ phase = "open"
  /\ hist.calls >= 3
  /\ Len(hist.installed) >= 3
  /\ Len(versions[vs.current].input_pool) >= 3
  /\ \E l \in 2 .. Len(versions[vs.current].output_pool) :
       versions[vs.current].output_pool[l][2] > 0

---------------------------------------------------------------------------
(* The descriptor a call creates, and what a crash leaves of it *)

\* a record WriteSnapshot wrote (or the record of a new database): it names
\* the comparator and deletes nothing
IsSnapshot(rec) ==
  /\ rec.type = "edit"
  /\ rec.call = 0
  /\ rec.edit.comparator = "ok"
  /\ rec.edit.deleted_files = {}

\* the numbers of records of descriptor n a crash can leave: what was
\* synced, and any more of what was written
CrashLengths(n) ==
  IF disk[n].exists
  THEN (IF durable[n] < Len(disk[n].recs) THEN durable[n] ELSE Len(disk[n].recs))
         .. Len(disk[n].recs)
  ELSE {0}

\* the directory after a crash that leaves k[n] records of descriptor n
CrashDisk(k) ==
  [n \in DiskNums |->
     IF disk[n].exists THEN DiskFile(SubSeq(disk[n].recs, 1, k[n])) ELSE NoDisk]

\* the descriptor Recover selects in directory dsk, r being the state of its
\* loop over the candidates; 0 if Recover fails
SelectedName(dsk, r) ==
  IF RecoverStatus(r) = "OK" THEN RecoverNames(dsk, current_file)[r.selected] ELSE 0

\* the descriptor a restarted process would select in directory dsk
RecoveryPicks(dsk) ==
  SelectedName(dsk, RecoverLoop(ConstructedWith(vs.rotating_manifest, vs.enable_sublevel),
                                dsk, RecoverNames(dsk, current_file)))

\* descriptor n of dsk starts with a snapshot
StartsWithSnapshot(dsk, n) ==
  /\ dsk[n].exists
  /\ dsk[n].recs # <<>>
  /\ IsSnapshot(dsk[n].recs[1])

\* the call of thread t has created the descriptor and is past the write of
\* its edit: the descriptor holds the snapshot and then the edit
NewDescriptorWritten(t) ==
  /\ loc[t].new_manifest
  /\ vs.descriptor_log = vs.manifest_file_number
  /\ disk[vs.descriptor_log].exists
  /\ Len(disk[vs.descriptor_log].recs) = 2
  /\ IsSnapshot(disk[vs.descriptor_log].recs[1])
  /\ disk[vs.descriptor_log].recs[2] = EditRecord(loc[t].call, loc[t].edit)

\* C21: a descriptor that LogAndApply creates holds the snapshot as its first
\* record and the edit after it; CURRENT is rewritten, or the other
\* descriptor and CURRENT are deleted, only by a call whose two records are
\* written and synced; and whatever a crash leaves of the descriptors, the
\* descriptor Recover then selects starts with a snapshot
C21_SnapshotFirst ==
  /\ [](\A t \in Threads :
          /\ (pc[t] = "write" /\ loc[t].new_manifest) =>
               /\ disk[vs.descriptor_log].recs # <<>>
               /\ IsSnapshot(disk[vs.descriptor_log].recs[1])
               /\ Len(disk[vs.descriptor_log].recs) = 1
          /\ (pc[t] \in {"sync", "setcurrent"} /\ loc[t].new_manifest) =>
               NewDescriptorWritten(t))
  /\ [](\A k \in [DiskNums -> 0 .. 4] :
          (\A n \in DiskNums : k[n] \in CrashLengths(n)) =>
            \/ RecoveryPicks(CrashDisk(k)) = 0
            \/ StartsWithSnapshot(CrashDisk(k), RecoveryPicks(CrashDisk(k))))
  /\ [][(\/ current_file' # current_file
          \/ \E n \in DiskNums :
               n # vs.manifest_file_number /\ disk[n].exists /\ ~disk'[n].exists)
         => \E t \in Threads :
              /\ pc[t] = "setcurrent"
              /\ NewDescriptorWritten(t)
              /\ durable[vs.descriptor_log] = 2]_vars

\* a call has created MANIFEST-2, written the snapshot and its edit, synced,
\* and installed it: CURRENT names it, or MANIFEST-1 and CURRENT are gone
C21_Witness ==
  /\ \E t \in Threads : pc[t] = "relock" /\ loc[t].new_manifest /\ loc[t].s = "OK"
  /\ Len(disk[vs.manifest_file_number].recs) = 2
  /\ IF vs.rotating_manifest THEN current_file = 0 /\ ~disk[3 - vs.manifest_file_number].exists
     ELSE current_file = vs.manifest_file_number

---------------------------------------------------------------------------
(* compact_pointer_ across a call that fails *)

\* C22: a LogAndApply call that returns an error leaves compact_pointer_ as
\* it was when the call was entered, in length and in every level's value
C22_FailureLeavesPointers ==
  [][\A t \in Threads :
       (pc[t] = "install" /\ pc'[t] = "idle" /\ loc[t].s # "OK") =>
         vs'.compact_pointer = loc[t].compact_pointer]_vars

---------------------------------------------------------------------------
(* compact_pointer_ and the levels of current_ *)

\* C23: without sublevels compact_pointer_ has as many entries as current_
\* has levels whenever PickCompaction, SetupOtherInputs, CompactRange or
\* WriteSnapshot runs: no call is between its entry and its return with the
\* sizes apart, and the assertion of WriteSnapshot and those of
\* PickCompaction have never failed
C23_SizesAgree ==
  ~vs.enable_sublevel =>
    /\ fault \notin {"assert:WriteSnapshot", "assert:PickCompaction"}
    /\ (phase = "open" /\ mu = NoThread) =>
         Len(vs.compact_pointer) = Len(versions[vs.current].files)

---------------------------------------------------------------------------
(* compact_pointer_ after Recover *)

\* the compact pointers the edits of a candidate record, in the order read
CandPointerSeq(i) ==
  Flatten([k \in 1 .. Len(CandRecs(i)) |-> CandRecs(i)[k].edit.compact_pointers], 1)

\* per level the last compact pointer a candidate records
CandPointers(i) ==
  LET cps == CandPointerSeq(i)
  IN {cps[k] : k \in {m \in 1 .. Len(cps) :
                        \A n \in (m + 1) .. Len(cps) : cps[n][1] # cps[m][1]}}

\* C24: after a Recover that returned OK compact_pointer_ holds, per level,
\* the last compact pointer the winning descriptor records and is empty at
\* the levels it records none for; the descriptors that lost leave no trace
C24_WinnerPointers ==
  phase = "open" =>
    \E i \in 1 .. 3 :
      /\ CandValid(i)
      /\ InstalledFrom(i)
      /\ PointerSets(vs.compact_pointer) = CandPointers(i)

---------------------------------------------------------------------------
(* The inputs of a compaction *)

\* the last PickCompaction or CompactRange returned a compaction
Returned == hist.pick.done /\ hist.pick.c # NoCompaction

\* the last compaction asked for was asked for through CompactRange
FromRange == "range" \in DOMAIN hist.pick

\* the least and the greatest user key of a set of tables
UserLow(F) == CHOOSE k \in {heap[f].smallest[1] : f \in F} :
                \A f \in F : k <= heap[f].smallest[1]
UserHigh(F) == CHOOSE k \in {heap[f].largest[1] : f \in F} :
                 \A f \in F : k >= heap[f].largest[1]

\* the tables of a level of current_
LevelSet(level) ==
  IF level + 1 <= Len(versions[vs.current].files)
  THEN SeqSet(versions[vs.current].files[level + 1]) ELSE {}

\* the tables of a level whose user keys meet the user keys lo .. hi
OverlapSet(level, lo, hi) ==
  {f \in LevelSet(level) : heap[f].largest[1] >= lo /\ heap[f].smallest[1] <= hi}

\* C25: a compaction PickCompaction or CompactRange returns has in
\* inputs_[1] exactly the tables of level + 1 whose user keys meet the user
\* keys spanned by inputs_[0], each once, and a level-0 compaction of
\* PickCompaction leaves out no level-0 table that meets that span
C25_InputsCover ==
  Returned =>
    LET c == hist.pick.c
        in0 == SeqSet(c.inputs[1])
    IN /\ in0 # {}
       /\ in0 \subseteq LevelSet(c.level)
       /\ SeqSet(c.inputs[2]) = OverlapSet(c.level + 1, UserLow(in0), UserHigh(in0))
       /\ Len(c.inputs[2]) = Cardinality(SeqSet(c.inputs[2]))
       /\ (c.level = 0 /\ ~FromRange) =>
            OverlapSet(0, UserLow(in0), UserHigh(in0)) \subseteq in0

\* PickCompaction returned a level-0 compaction of several tables that
\* takes in tables of level 1, with its inputs held by the compaction
C25_Witness ==
  /\ Returned
  /\ ~FromRange
  /\ hist.pick.c.level = 0
  /\ Len(hist.pick.c.inputs[1]) >= 2
  /\ hist.pick.c.inputs[2] # <<>>
  /\ comp[1] = hist.pick.c

---------------------------------------------------------------------------
(* GetOverlappingInputs *)

\* a table's user keys meet the user keys from begin to end, a bound of
\* NoKey being no bound
Meets(f, begin, end) ==
  /\ begin = NoKey \/ heap[f].largest[1] >= begin[1]
  /\ end = NoKey \/ heap[f].smallest[1] <= end[1]

\* begin and end, when both are given, are in order
WellFormed(begin, end) == begin = NoKey \/ end = NoKey \/ begin[1] <= end[1]

RECURSIVE Closure(_, _, _)
\* the tables of a level that meet a range, the range being widened to the
\* tables found until no table widens it
Closure(level, begin, end) ==
  LET S == {f \in LevelSet(level) : Meets(f, begin, end)}
      lo == IF begin = NoKey \/ S = {} \/ UserLow(S) >= begin[1] THEN begin
            ELSE <<UserLow(S), 0>>
      hi == IF end = NoKey \/ S = {} \/ UserHigh(S) <= end[1] THEN end
            ELSE <<UserHigh(S), 0>>
  IN IF lo = begin /\ hi = end THEN S ELSE Closure(level, lo, hi)

\* C26: GetOverlappingInputs(level, begin, end), begin and end in order
\* when both are given, returns each table once; in level 0 the tables that
\* meet the range as widened to the tables found, so that no level-0 table
\* left out meets a table returned; in the levels above exactly the tables
\* that meet the range, a missing bound being no bound, and none for a
\* level without tables
C26_OverlapClosed ==
  (hist.pick.done /\ FromRange
     /\ WellFormed(hist.pick.range.begin, hist.pick.range.end)) =>
    LET q == hist.pick.range
        R == SeqSet(q.overlapping)
    IN /\ Len(q.overlapping) = Cardinality(R)
       /\ q.level = 0 =>
            /\ R = Closure(0, q.begin, q.end)
            /\ \A g \in LevelSet(0) \ R : \A f \in R :
                 ~(heap[g].largest[1] >= heap[f].smallest[1]
                     /\ heap[g].smallest[1] <= heap[f].largest[1])
       /\ q.level >= 1 => R = {f \in LevelSet(q.level) : Meets(f, q.begin, q.end)}
       /\ LevelSet(q.level) = {} => q.overlapping = <<>>

\* GetOverlappingInputs was asked for a range of level 0 and returned a
\* table that does not meet the range asked for, leaving a table out
C26_Witness ==
  /\ hist.pick.done /\ FromRange
  /\ hist.pick.range.level = 0
  /\ hist.pick.range.begin # NoKey /\ hist.pick.range.end # NoKey
  /\ WellFormed(hist.pick.range.begin, hist.pick.range.end)
  /\ \E f \in SeqSet(hist.pick.range.overlapping) :
       ~Meets(f, hist.pick.range.begin, hist.pick.range.end)
  /\ LevelSet(0) \ SeqSet(hist.pick.range.overlapping) # {}

---------------------------------------------------------------------------
(* SetupOtherInputs: growing inputs_[0] *)

\* inputs_[0] as handed to SetupOtherInputs by the last PickCompaction or
\* CompactRange that returned a compaction
FirstInputs ==
  IF FromRange THEN SeqSet(hist.pick.range.seeded)
  ELSE LET level == hist.pick.c.level
           seed == IF SizeCompaction(hist.pick.compaction_score)
                   THEN FirstAfterPointer(heap, versions[vs.current].files[level + 1],
                                          hist.pick.compact_pointer[level + 1])
                   ELSE hist.pick.file_to_compact
       IN IF level = 0 THEN Closure(0, heap[seed].smallest, heap[seed].largest)
          ELSE {seed}

\* the tables of a level that GetOverlappingInputs gives for the user keys
\* spanned by a set of tables
Spanned(level, F) ==
  IF level = 0 THEN Closure(0, <<UserLow(F), 0>>, <<UserHigh(F), 0>>)
  ELSE OverlapSet(level, UserLow(F), UserHigh(F))

RECURSIVE SetBytes(_)
\* TotalFileSize of a set of tables
SetBytes(F) ==
  IF F = {} THEN 0
  ELSE LET f == CHOOSE g \in F : TRUE IN heap[f].file_size + SetBytes(F \ {f})

\* the three conditions of the statement on the inputs first computed
Grows(level, in0) ==
  LET in1 == Spanned(level + 1, in0)
      expanded0 == Spanned(level, in0 \cup in1)
  IN /\ Cardinality(expanded0) > Cardinality(in0)
     /\ SetBytes(expanded0) + SetBytes(in1) < (2 * (level_factor + 2) + 1) * table_file_size
     /\ Cardinality(Spanned(level + 1, expanded0)) = Cardinality(in1)

\* the inputs of the compaction returned are the wider ones
Widened(level, in0) ==
  LET in1 == Spanned(level + 1, in0)
      expanded0 == Spanned(level, in0 \cup in1)
  IN /\ SeqSet(hist.pick.c.inputs[1]) = expanded0
     /\ SeqSet(hist.pick.c.inputs[2]) = Spanned(level + 1, expanded0)

\* the inputs of the compaction returned are those first computed
AsFirst(level, in0) ==
  /\ SeqSet(hist.pick.c.inputs[1]) = in0
  /\ SeqSet(hist.pick.c.inputs[2]) = Spanned(level + 1, in0)

\* C27 as stated: the wider inputs are taken if and only if the three
\* conditions hold, and the inputs first computed are kept otherwise
C27_GrowsIff ==
  Returned =>
    IF Grows(hist.pick.c.level, FirstInputs)
    THEN Widened(hist.pick.c.level, FirstInputs)
    ELSE AsFirst(hist.pick.c.level, FirstInputs)

\* C27: the wider inputs are taken if and only if inputs_[1] as first
\* computed is not empty and the three conditions hold, and the inputs
\* first computed are kept otherwise
C27_GrowsIffParents ==
  Returned =>
    IF Spanned(hist.pick.c.level + 1, FirstInputs) # {}
         /\ Grows(hist.pick.c.level, FirstInputs)
    THEN Widened(hist.pick.c.level, FirstInputs)
    ELSE AsFirst(hist.pick.c.level, FirstInputs)

\* a level-1 compaction seeded with one table was returned with two tables
\* of level 1 and the one table of level 2 they overlap
C27_Witness ==
  /\ Returned
  /\ hist.pick.c.level = 1
  /\ Cardinality(FirstInputs) = 1
  /\ Len(hist.pick.c.inputs[1]) = 2
  /\ Len(hist.pick.c.inputs[2]) = 1
  /\ Grows(1, FirstInputs)

---------------------------------------------------------------------------
(* SetupOtherInputs: compact_pointer_[level] *)

\* the largest internal key of a set of tables
LargestKey(F) ==
  CHOOSE k \in {heap[f].largest : f \in F} :
    \A f \in F : IcmpCompare(heap[f].largest, k) <= 0

\* compact_pointer_[level] and the compact pointer of the edit of the
\* compaction returned are both the key k
PointerIs(k) ==
  /\ vs.compact_pointer[hist.pick.c.level + 1] = k
  /\ hist.pick.c.compact_pointers = <<<<hist.pick.c.level, k>>>>

\* C28 as stated: after SetupOtherInputs compact_pointer_[level] and the
\* compaction's edit hold the largest key of all the inputs of the
\* compaction, those of level + 1 included
C28_PointerAtWholeRange ==
  Returned =>
    PointerIs(LargestKey(SeqSet(hist.pick.c.inputs[1] \o hist.pick.c.inputs[2])))

\* C28: after SetupOtherInputs compact_pointer_[level] and the compaction's
\* edit hold the largest key of inputs_[0] as returned
C28_PointerAtInputs ==
  Returned => PointerIs(LargestKey(SeqSet(hist.pick.c.inputs[1])))

\* a compaction was returned whose tables of level + 1 reach beyond those
\* of its level, and compact_pointer_[level] has changed
C28_Witness ==
  /\ Returned
  /\ hist.pick.c.inputs[2] # <<>>
  /\ LargestKey(SeqSet(hist.pick.c.inputs[1]))
       # LargestKey(SeqSet(hist.pick.c.inputs[1] \o hist.pick.c.inputs[2]))
  /\ vs.compact_pointer[hist.pick.c.level + 1]
       # hist.pick.compact_pointer[hist.pick.c.level + 1]

---------------------------------------------------------------------------
(* PickCompaction: the seed of a size-triggered compaction *)

\* the last PickCompaction took the size-triggered branch
SizePicked ==
  /\ hist.pick.done
  /\ ~FromRange
  /\ hist.pick.compaction_score[1] >= hist.pick.compaction_score[2]

\* the positions in a level of the tables whose largest key is greater
\* than the key cp
Beyond(level, cp) ==
  {i \in 1 .. Len(versions[vs.current].files[level + 1]) :
     IcmpCompare(heap[versions[vs.current].files[level + 1][i]].largest, cp) > 0}

\* the first table of the level whose largest key is greater than cp, the
\* first table of the level when cp is empty or no table has one
SeedFor(level, cp) ==
  versions[vs.current].files[level + 1][
    IF cp = NoKey \/ Beyond(level, cp) = {} THEN 1
    ELSE CHOOSE i \in Beyond(level, cp) : \A j \in Beyond(level, cp) : i <= j]

\* the inputs SetupOtherInputs makes of the seed s of a level
SeededWith(level, s) ==
  LET in0 == IF level = 0 THEN Closure(0, heap[s].smallest, heap[s].largest) ELSE {s}
  IN IF Spanned(level + 1, in0) # {} /\ Grows(level, in0)
     THEN Widened(level, in0) ELSE AsFirst(level, in0)

\* C29: a size-triggered PickCompaction finds tables in the level it
\* chose, and the compaction it returns is the one grown from the first
\* table of the level whose largest key is greater than
\* compact_pointer_[level], from the first table of the level when the
\* pointer is empty or no table reaches beyond it
C29_SeedAfterPointer ==
  SizePicked =>
    /\ hist.pick.compaction_level >= 0
    /\ LevelSet(hist.pick.compaction_level) # {}
    /\ hist.pick.c # NoCompaction
    /\ hist.pick.c.level = hist.pick.compaction_level
    /\ SeedFor(hist.pick.c.level, hist.pick.compact_pointer[hist.pick.c.level + 1])
         \in SeqSet(hist.pick.c.inputs[1])
    /\ SeededWith(hist.pick.c.level,
                  SeedFor(hist.pick.c.level,
                          hist.pick.compact_pointer[hist.pick.c.level + 1]))

\* a size-triggered compaction of level 1 was seeded with a table that is
\* not the first of the level, compact_pointer_[1] ending the table before
C29_Witness ==
  /\ SizePicked
  /\ hist.pick.c.level = 1
  /\ hist.pick.compact_pointer[2] # NoKey
  /\ Beyond(1, hist.pick.compact_pointer[2]) # {}
  /\ 1 \notin Beyond(1, hist.pick.compact_pointer[2])
  /\ hist.pick.c.inputs[1]
       = <<SeedFor(1, hist.pick.compact_pointer[2])>>

\* a size-triggered compaction of level 1 wrapped around: no table reaches
\* beyond compact_pointer_[1] and the first table of the level was taken
WrappedAround ==
  /\ SizePicked
  /\ hist.pick.c.level = 1
  /\ hist.pick.compact_pointer[2] # NoKey
  /\ Beyond(1, hist.pick.compact_pointer[2]) = {}
  /\ versions[vs.current].files[2][1] \in SeqSet(hist.pick.c.inputs[1])

---------------------------------------------------------------------------
(* CompactRange: the cap on the inputs *)

\* the last compaction asked for was a CompactRange of a level above 0 that
\* found tables in the range
RangeAbove ==
  /\ hist.pick.done
  /\ FromRange
  /\ hist.pick.range.level >= 1
  /\ hist.pick.range.overlapping # <<>>

\* TotalFileSize of the first n tables of a list
PrefixBytes(fs, n) == SetBytes({fs[i] : i \in 1 .. n})

\* C30 as stated: above level 0 the tables CompactRange takes from the
\* overlapping ones have at most MaxFileSizeForLevel(level) bytes in total
C30_WithinLimit ==
  RangeAbove =>
    PrefixBytes(hist.pick.range.seeded, Len(hist.pick.range.seeded))
      <= MaxFileSizeForLevel(hist.pick.range.level)

\* C30: above level 0 the tables CompactRange takes are the first of the
\* overlapping ones up to and including the one with which the total
\* reaches MaxFileSizeForLevel(level), all of them if the total never
\* does: the total without the last table taken is below the limit
C30_StopsOnceReached ==
  RangeAbove =>
    LET q == hist.pick.range
        n == Len(q.seeded)
    IN /\ n >= 1
       /\ n <= Len(q.overlapping)
       /\ q.seeded = SubSeq(q.overlapping, 1, n)
       /\ PrefixBytes(q.seeded, n - 1) < MaxFileSizeForLevel(q.level)
       /\ n < Len(q.overlapping) => PrefixBytes(q.seeded, n) >= MaxFileSizeForLevel(q.level)

\* CompactRange took two of three overlapping tables of level 1, more
\* bytes than MaxFileSizeForLevel(1), and returned a compaction of them
C30_Witness ==
  /\ RangeAbove
  /\ hist.pick.range.level = 1
  /\ Len(hist.pick.range.overlapping) = 3
  /\ Len(hist.pick.range.seeded) = 2
  /\ PrefixBytes(hist.pick.range.seeded, 2) > MaxFileSizeForLevel(1)
  /\ Returned
  /\ SeqSet(hist.pick.range.seeded) \subseteq SeqSet(hist.pick.c.inputs[1])

---------------------------------------------------------------------------
(* ShouldStopBefore *)

\* the grandparents a call of ShouldStopBefore went past
Crossed(q) ==
  {q.before.grandparents[i] : i \in (q.before.grandparent_index + 1) .. q.after.grandparent_index}

\* grandparent_index_ after the call is at the first grandparent from
\* where it was whose largest key is not below the key, or at the end
StopsAtFirstNotBelow(q) ==
  /\ q.after.grandparent_index >= q.before.grandparent_index
  /\ q.after.grandparent_index <= Len(q.before.grandparents)
  /\ \A f \in Crossed(q) : IcmpCompare(heap[f].largest, q.key) < 0
  /\ q.after.grandparent_index < Len(q.before.grandparents) =>
       IcmpCompare(heap[q.before.grandparents[q.after.grandparent_index + 1]].largest,
                   q.key) >= 0

\* the call returned true and left overlapped_bytes_ at 0 exactly when the
\* total is over the bound, and left the total otherwise
DecidedOn(q, total) ==
  /\ q.ret = (total > level_factor * table_file_size)
  /\ q.after.overlapped_bytes = IF q.ret THEN 0 ELSE total

\* C31 as stated: every call of ShouldStopBefore goes past the grandparents
\* whose largest key is below the key, adds the size of each of them to
\* overlapped_bytes_, and returns true, with overlapped_bytes_ back at 0,
\* exactly when the sum is over the bound
C31_CountsEveryCrossed ==
  hist.stream.stop.done =>
    /\ StopsAtFirstNotBelow(hist.stream.stop)
    /\ DecidedOn(hist.stream.stop,
                 hist.stream.stop.before.overlapped_bytes
                   + SetBytes(Crossed(hist.stream.stop)))

\* C31: with enable_should_stop_before on and sublevels off, a call of
\* ShouldStopBefore goes past the grandparents whose largest key is below
\* the key and adds their sizes to overlapped_bytes_ unless it is the first
\* call of the compaction, whose grandparents passed are not counted; it
\* returns true, with overlapped_bytes_ back at 0, exactly when the sum is
\* over the bound. With the option off the call returns false and changes
\* nothing
C31_CountsCrossedOnceSeen ==
  hist.stream.stop.done =>
    IF vs.enable_should_stop_before /\ ~vs.enable_sublevel
    THEN /\ StopsAtFirstNotBelow(hist.stream.stop)
         /\ hist.stream.stop.after.seen_key
         /\ DecidedOn(hist.stream.stop,
                      hist.stream.stop.before.overlapped_bytes
                        + (IF hist.stream.stop.before.seen_key
                           THEN SetBytes(Crossed(hist.stream.stop)) ELSE 0))
    ELSE /\ ~hist.stream.stop.ret
         /\ hist.stream.stop.after = hist.stream.stop.before

\* a call that was not the first went past a grandparent, came over the
\* bound and returned true
C31_Witness ==
  /\ hist.stream.stop.done
  /\ hist.stream.stop.before.seen_key
  /\ Crossed(hist.stream.stop) # {}
  /\ hist.stream.stop.ret
  /\ hist.stream.stop.after.overlapped_bytes = 0

---------------------------------------------------------------------------
(* IsBaseLevelForKey *)

\* the tables of the levels from level + 2 on of the input version of the
\* compaction c
DeeperTables(c) ==
  UNION {SeqSet(versions[c.input_version].files[l]) :
           l \in (c.level + 3) .. Len(versions[c.input_version].files)}

\* the tables of a level of the input version before its cursor
BehindCursor(c, l) ==
  {versions[c.input_version].files[l][i] : i \in 1 .. c.level_ptrs[l]}

\* C32: a call of IsBaseLevelForKey in a sequence of calls with
\* non-decreasing user keys returns true exactly when no table of a level
\* from level + 2 on of the input version holds the key in its range; the
\* cursors do not move back, move only in the levels from level + 2 on,
\* and every table behind a cursor ends below the key
C32_BaseLevelIff ==
  (hist.stream.base.done /\ fault = "none") =>
    LET q == hist.stream.base
    IN /\ q.ret = ~\E f \in DeeperTables(q.before) :
                     heap[f].smallest[1] <= q.key /\ q.key <= heap[f].largest[1]
       /\ \A l \in 1 .. Len(q.after.level_ptrs) :
            /\ q.after.level_ptrs[l] >= q.before.level_ptrs[l]
            /\ l < q.before.level + 3 => q.after.level_ptrs[l] = 0
            /\ \A f \in BehindCursor(q.after, l) : heap[f].largest[1] < q.key

\* IsBaseLevelForKey returned false in a call that moved on a cursor that
\* was past the first table of its level already
C32_Witness ==
  /\ hist.stream.base.done
  /\ ~hist.stream.base.ret
  /\ \E l \in 1 .. Len(hist.stream.base.before.level_ptrs) :
       /\ hist.stream.base.before.level_ptrs[l] >= 1
       /\ hist.stream.base.after.level_ptrs[l] > hist.stream.base.before.level_ptrs[l]

---------------------------------------------------------------------------
(* C33 *)

\* the levels of its input version that IsBaseLevelForKey may visit for c
LevelsVisited(c) ==
  c.level + 2 .. Len(versions[c.input_version].files) - 1

\* the Compaction objects that still hold their input version
Planned == {c \in CompSlots : comp[c] # NoCompaction /\ comp[c].input_version > 0}

\* C33: for every Compaction PickCompaction hands out, without and with
\* sublevels, level_ptrs_ has an entry for every level of the input version
\* that IsBaseLevelForKey visits, and no call of IsBaseLevelForKey has used
\* level_ptrs_[lvl] with lvl >= level_ptrs_.size()
C33_CursorsInRange ==
  /\ \A c \in Planned : \A lvl \in LevelsVisited(comp[c]) : lvl < Len(comp[c].level_ptrs)
  /\ fault # "ub:level_ptrs"

---------------------------------------------------------------------------
(* C34 *)

\* a step of UpdateStats
Charging == hist'.charges = hist.charges + 1

\* the file object a step of UpdateStats charges and the version it is
\* charged in
ChargedFile == CHOOSE f \in ObjIds : heap'[f] # heap[f]
ChargedIn == held[CHOOSE r \in Readers : held[r] # 0]

\* the seeks a file of a given size is allowed: max(100, size / 16384)
SeekBudget(size) == IF size \div 16384 > 100 THEN size \div 16384 ELSE 100

\* what a step of UpdateStats does to the file and to the version, given
\* whether the budget counts as used up after the step
ChargeSets(used_up) ==
  LET f == ChargedFile
      v == ChargedIn
      unset == versions[v].file_to_compact = 0
  IN /\ heap'[f].number = hist'.seek
     /\ heap'[f] = [heap[f] EXCEPT !.allowed_seeks = @ - 1]
     /\ \A g \in ObjIds \ {f} : heap'[g] = heap[g]
     /\ hist'.updated <=> (used_up /\ unset)
     /\ hist'.updated =>
          /\ versions'[v].file_to_compact = f
          /\ versions'[v].file_to_compact_level >= 0
          /\ \E i \in 1 .. Len(versions[v].files[versions'[v].file_to_compact_level + 1]) :
               versions[v].files[versions'[v].file_to_compact_level + 1][i] = f
          /\ \A u \in VerIds \ {v} : versions'[u] = versions[u]
     /\ ~hist'.updated => versions' = versions

RECURSIVE SeeksSpent(_)
\* the seeks missing from the budgets of the file objects S
SeeksSpent(S) ==
  IF S = {} THEN 0
  ELSE LET f == CHOOSE x \in S : TRUE
       IN SeekBudget(heap[f].file_size) - heap[f].allowed_seeks + SeeksSpent(S \ {f})

\* the budgets of the file objects are what they were given less the seeks
\* charged (a file moved to another level is a new object of the same
\* number), and a file is due in a version only once as many seeks as its
\* budget were charged to it
BudgetKept ==
  LET live == {f \in ObjIds : heap[f].number # 0}
  IN /\ \A f \in live :
          /\ heap[f].allowed_seeks <= SeekBudget(heap[f].file_size)
          /\ heap[f].number # hist.seek =>
               heap[f].allowed_seeks = SeekBudget(heap[f].file_size)
     /\ SeeksSpent({f \in live : heap[f].number = hist.seek}) <= hist.charges
     /\ \A v \in VerIds :
          (versions[v].refs > 0 /\ versions[v].file_to_compact # 0) =>
            /\ heap[versions[v].file_to_compact].number = hist.seek
            /\ hist.charges >= SeekBudget(heap[versions[v].file_to_compact].file_size)
            /\ heap[versions[v].file_to_compact].allowed_seeks <= 0

\* C34 as stated: UpdateStats takes one seek off the file; it sets
\* file_to_compact_ and its level and returns true exactly when the budget
\* is zero after the step while file_to_compact_ is unset, and leaves a set
\* file_to_compact_ alone; a file of 16384 bytes is due at its 100th charge
\* and not earlier
C34_DueAtZero ==
  /\ []BudgetKept
  /\ [][Charging => ChargeSets(heap'[ChargedFile].allowed_seeks = 0)]_vars

\* C34 amended: ... exactly when the budget is zero or less after the step
\* while file_to_compact_ of the version charged is unset
C34_DueAtZeroOrLess ==
  /\ []BudgetKept
  /\ [][Charging => ChargeSets(heap'[ChargedFile].allowed_seeks <= 0)]_vars

\* UpdateStats has returned true for a file whose budget was used up before,
\* in a version installed since
C34_Witness ==
  /\ hist.updated
  /\ \E f \in ObjIds :
       /\ heap[f].number = hist.seek
       /\ heap[f].allowed_seeks < 0
       /\ \E v \in VerIds : versions[v].refs > 0 /\ versions[v].file_to_compact = f

---------------------------------------------------------------------------
(* C35 *)

\* the reads of the last Get that did not resolve the key: no entry for the
\* user key in the table, and no error
Misses ==
  {i \in 1 .. Len(hist.get.g.read) :
     /\ hist.get.g.read[i] # hist.get.fail
     /\ Outcome(hist.get.g.read[i], hist.get.k) = "NotFound"}

\* the level of the version v that holds the table `number`
LevelHolding(v, number) ==
  CHOOSE l \in 0 .. Len(versions[v].files) - 1 :
    \E i \in 1 .. Len(versions[v].files[l + 1]) :
      heap[versions[v].files[l + 1][i]].number = number

\* the last Get recorded a charge iff `charged`, and the charge is the first
\* table it read, with the level of that table
ChargedIff(charged) ==
  LET g == hist.get.g
  IN /\ (g.seek_file # 0) <=> charged
     /\ (g.seek_file = 0) => g.seek_file_level = -1
     /\ (g.seek_file # 0) =>
          /\ g.seek_file = g.read[1]
          /\ g.seek_file_level = LevelHolding(hist.get.v, g.read[1])

\* C35 as stated: a Get records a seek charge exactly when two of its reads
\* missed; the charge is the first file it read and that file's level, and
\* is not replaced by a later file
C35_ChargeOnSecondMiss ==
  (hist.get.done /\ held[1] = hist.get.v) => ChargedIff(Cardinality(Misses) >= 2)

\* C35 amended: a Get records a seek charge exactly when it reads a second
\* file, whatever that read gives
C35_ChargeOnSecondRead ==
  (hist.get.done /\ held[1] = hist.get.v) => ChargedIff(Len(hist.get.g.read) >= 2)

\* a Get read three files, the first two in level 0, and charged the first
C35_Witness ==
  /\ hist.get.done
  /\ held[1] = hist.get.v
  /\ Len(hist.get.g.read) >= 3
  /\ hist.get.g.seek_file = hist.get.g.read[1]
  /\ hist.get.g.seek_file_level = 0
  /\ LevelHolding(hist.get.v, hist.get.g.read[3]) > 0

---------------------------------------------------------------------------
(* C36 *)

\* the tables of level l of the version flushed to whose user keys meet the
\* range of the memtable
InRange(l) ==
  LET ver == versions[hist.output.v]
  IN IF l + 1 > Len(ver.files) THEN {}
     ELSE {ver.files[l + 1][i] : i \in {j \in 1 .. Len(ver.files[l + 1]) :
             /\ heap[ver.files[l + 1][j]].largest[1] >= hist.output.lo
             /\ heap[ver.files[l + 1][j]].smallest[1] <= hist.output.hi}}

\* the level returned is in range, is 0 over a level-0 table in the range,
\* and otherwise is the first level from which the output may not advance
\* (may(l): from l to l + 1); above 0 no table down to it is in the range
LevelOfOutput(may(_)) ==
  LET L == hist.output.level
  IN /\ L \in 0 .. kMaxMemCompactLevel
     /\ InRange(0) # {} => L = 0
     /\ InRange(0) = {} =>
          /\ \A l \in 0 .. L - 1 : may(l)
          /\ L < kMaxMemCompactLevel => ~may(L)
     /\ L > 0 => \A l \in 0 .. L : InRange(l) = {}

\* the output advances while the bytes two levels down are under the limit
MayAdvanceUnder(l) ==
  /\ InRange(l + 1) = {}
  /\ SetBytes(InRange(l + 2)) < level_factor * table_file_size

\* the output advances while the bytes two levels down do not exceed it
MayAdvanceWithin(l) ==
  /\ InRange(l + 1) = {}
  /\ SetBytes(InRange(l + 2)) <= level_factor * table_file_size

\* C36 as stated: PickLevelForMemTableOutput returns a level in
\* [0, kMaxMemCompactLevel], 0 when a level-0 file overlaps the range, and
\* otherwise advances from level to level + 1 while no file of level + 1
\* overlaps and the files of level + 2 that overlap are under
\* max_grandparent_overlap_bytes in all; above 0 no file of levels 0 .. L
\* overlaps the range
C36_AdvancesWhileUnder ==
  (hist.output.done /\ vs.current = hist.output.v) => LevelOfOutput(MayAdvanceUnder)

\* C36 amended: ... while the files of level + 2 that overlap are at most
\* max_grandparent_overlap_bytes in all
C36_AdvancesWhileWithin ==
  (hist.output.done /\ vs.current = hist.output.v) => LevelOfOutput(MayAdvanceWithin)

\* the output went to level 2 past a table of level 1 outside its range
C36_Witness ==
  /\ hist.output.done
  /\ vs.current = hist.output.v
  /\ hist.output.level = 2
  /\ versions[hist.output.v].files[2] # <<>>
  /\ InRange(1) = {}

---------------------------------------------------------------------------
(* C37 *)

\* the versions of the ring that Recover or LogAndApply installed
Installed == {v \in VerIds : phase = "open" /\ versions[v].refs > 0}

\* the levels Finalize scores: all below the last, levels being pool
\* entries with sublevels
ScoredLevels(ver) ==
  0 .. (IF vs.enable_sublevel THEN Len(ver.input_pool) ELSE Len(ver.files)) - 2

\* the files of level L: of its row, or of the sublevels of its two pools
ScoredFiles(ver, L) ==
  IF vs.enable_sublevel
  THEN PoolFiles(ver, ver.input_pool[L + 1][1], ver.input_pool[L + 1][2])
         \cup PoolFiles(ver, ver.output_pool[L + 1][1], ver.output_pool[L + 1][2])
  ELSE {ver.files[L + 1][i] : i \in 1 .. Len(ver.files[L + 1])}

\* the score of level L as a quotient <<n, d>>, bytes counted in quarters
\* of table_file_size
StatedScore(ver, L) ==
  IF L = 0 THEN <<Len(ver.files[1]), l0_compaction_trigger>>
  ELSE <<SetBytes(ScoredFiles(ver, L)) \div (table_file_size \div 4),
         4 * l1_compaction_trigger * Power(level_factor, L - 1)>>

\* quotient a is below, or equal to, quotient b
Below(a, b) == a[1] * b[2] < b[1] * a[2]
Same(a, b) == a[1] * b[2] = b[1] * a[2]

\* the quotient kept on a version, bytes counted in quarters of
\* table_file_size where it is one of bytes
KeptScore(ver) ==
  IF ver.compaction_score[2] % (table_file_size \div 4) = 0
  THEN <<ver.compaction_score[1] \div (table_file_size \div 4),
         ver.compaction_score[2] \div (table_file_size \div 4)>>
  ELSE ver.compaction_score

\* C37: every version installed by LogAndApply or Recover carries the
\* level of greatest score among the levels below the last, the lowest of
\* them when several have that score, and that score: files over
\* l0_compaction_trigger for level 0, bytes (of both pools with sublevels)
\* over l1_compaction_trigger * table_file_size * level_factor^(L-1) above
C37_ArgmaxKept ==
  \A v \in Installed :
    LET ver == versions[v]
        b == ver.compaction_level
    IN /\ b \in ScoredLevels(ver)
       /\ Same(KeptScore(ver), StatedScore(ver, b))
       /\ \A l \in ScoredLevels(ver) :
            /\ ~Below(StatedScore(ver, b), StatedScore(ver, l))
            /\ l < b => Below(StatedScore(ver, l), StatedScore(ver, b))

\* an installed version in which level 0, holding tables, and level 1 have
\* the same score, and level 0 is kept
C37_Witness ==
  /\ phase = "open"
  /\ versions[vs.current].compaction_level = 0
  /\ Len(versions[vs.current].files[1]) > 0
  /\ 1 \in ScoredLevels(versions[vs.current])
  /\ Same(StatedScore(versions[vs.current], 0), StatedScore(versions[vs.current], 1))

---------------------------------------------------------------------------
(* C38 *)

RECURSIVE PoolLengths(_, _)
\* the sum of the lengths of the entries i .. of a pool
PoolLengths(pool, i) ==
  IF i > Len(pool) THEN 0 ELSE pool[i][2] + PoolLengths(pool, i + 1)

\* the sublevels of the entries of a pool above level 0
PoolRows(pool) == UNION {pool[i][1] .. pool[i][1] + pool[i][2] - 1 : i \in 2 .. Len(pool)}

\* the version ReorganizeSublevels laid out last among those installed: the
\* current one once a call of LogAndApply has produced it
Reorganized ==
  {v \in VerIds : /\ vs.enable_sublevel
                  /\ phase = "open"
                  /\ hist.producer # 0
                  /\ v = vs.current}

\* C38 as stated: after ReorganizeSublevels the lengths of all entries of
\* input_pool and output_pool add up to the number of rows of files
C38_PoolsAddUp ==
  \A v \in Reorganized :
    PoolLengths(versions[v].input_pool, 1) + PoolLengths(versions[v].output_pool, 1)
      = Len(versions[v].files)

\* C38 amended: sublevel 0 is entry 0 of both pools, so the lengths add up
\* to the number of rows plus one; with sublevel 0 counted once every row of
\* files is in exactly one pool entry
C38_PoolsTileRows ==
  \A v \in Reorganized :
    /\ PoolLengths(versions[v].input_pool, 1) + PoolLengths(versions[v].output_pool, 1)
         = Len(versions[v].files) + 1
    /\ PoolLengths(versions[v].input_pool, 2) + PoolLengths(versions[v].output_pool, 2)
         = Len(versions[v].files) - 1
    /\ {0} \cup PoolRows(versions[v].input_pool) \cup PoolRows(versions[v].output_pool)
         = 0 .. Len(versions[v].files) - 1
    /\ 0 \notin PoolRows(versions[v].input_pool) \cup PoolRows(versions[v].output_pool)
    /\ PoolRows(versions[v].input_pool) \cap PoolRows(versions[v].output_pool) = {}

\* a version laid out by ReorganizeSublevels is current; it has four rows
\* and a level above 0 whose output pool holds a sublevel
C38_Witness ==
  /\ phase = "open"
  /\ vs.current \in Reorganized
  /\ Len(versions[vs.current].files) >= 4
  /\ \E l \in 2 .. Len(versions[vs.current].output_pool) :
       versions[vs.current].output_pool[l][2] > 0

----------------------------------------------------------------------------
\* ReorganizeSublevels keeps the files

\* the step of LogAndApply that builds the new version of a database with
\* sublevels: builder.SaveTo(v), ReorganizeSublevels(v, edit), Finalize(v)
Relaid(t) ==
  /\ vs.enable_sublevel
  /\ pc[t] = "idle"
  /\ pc'[t] # "idle"
  /\ fault' = "none"

\* the rows builder.SaveTo(v) leaves in v, before ReorganizeSublevels
SavedRows(t) ==
  LET e == loc'[t].edit
      b == BuildVersionBlock(CallerWorld([next_file_number |-> e.next_file_number]), e)
  IN b.w.versions[b.v].files

\* how often the rows hold the file f
Copies(files, f) ==
  Cardinality({p \in (1 .. Len(files)) \X ObjIds :
                 /\ p[2] <= Len(files[p[1]])
                 /\ files[p[1]][p[2]] = f})

\* the levels whose input or output pool holds a sublevel with the file f
PoolLevelsOf(files, ver, f) ==
  {l \in 0 .. Len(ver.input_pool) - 1 :
     \E i \in 1 .. Len(files) :
       /\ \E j \in 1 .. Len(files[i]) : files[i][j] = f
       /\ \/ i - 1 \in ver.input_pool[l + 1][1]
                        .. ver.input_pool[l + 1][1] + ver.input_pool[l + 1][2] - 1
          \/ i - 1 \in ver.output_pool[l + 1][1]
                        .. ver.output_pool[l + 1][1] + ver.output_pool[l + 1][2] - 1}

FilesKept(saved, cur, new) ==
  \A f \in ObjIds :
    /\ Copies(new.files, f) = Copies(saved, f)
    /\ Copies(saved, f) > 0 =>
         /\ Cardinality(PoolLevelsOf(saved, cur, f)) = 1
         /\ PoolLevelsOf(new.files, new, f) = PoolLevelsOf(saved, cur, f)

\* C39: with sublevels, ReorganizeSublevels neither loses nor duplicates a
\* file: every file is as often in the rows of the version it lays out as
\* in the rows the builder saved, and it is in a sublevel of the same level
\* (the index in the pools) it was in, in that level's input or output pool
C39_FilesKept ==
  [][\A t \in Threads :
       Relaid(t) => FilesKept(SavedRows(t), versions[vs.current],
                              versions'[loc'[t].v])]_vars

\* a new version is built in which a table the edit adds to a sublevel of
\* the input pool of a level >= 1 lies in the output pool of that level
C39_Witness ==
  /\ vs.enable_sublevel
  /\ fault = "none"
  /\ \E t \in Threads :
       /\ pc[t] = "write"
       /\ LET cur == versions[vs.current]
              new == versions[loc[t].v]
              e == loc[t].edit
          IN \E l \in 1 .. Len(cur.input_pool) - 1, k \in 1 .. Len(e.new_files) :
               /\ l < Len(new.output_pool)
               /\ e.new_files[k].level \in cur.input_pool[l + 1][1]
                     .. cur.input_pool[l + 1][1] + cur.input_pool[l + 1][2] - 1
               /\ \E i \in 1 .. Len(new.files) :
                    /\ i - 1 \in new.output_pool[l + 1][1]
                                 .. new.output_pool[l + 1][1] + new.output_pool[l + 1][2] - 1
                    /\ \E j \in 1 .. Len(new.files[i]) :
                         heap[new.files[i][j]].number = e.new_files[k].number

----------------------------------------------------------------------------
\* The aborts of the sublevel code

\* C40: with sublevels, whatever edits LogAndApply installs and whatever
\* PickCompaction is asked after them, no abort() is reached: neither
\* "abort1" nor "abort2" of ReorganizeSublevels, nor "abort3" of
\* SetupSublevelInputs
C40_NoAbort ==
  fault \notin {"abort:ReorganizeSublevels", "abort:SetupSublevelInputs"}

============================================================================
